---------------------------- MODULE Spec2Model ----------------------------
(***************************************************************************)
(* AES5-2018 sampling-frequency core: FrequencyValidator,                  *)
(* RateCategoryManager and the ValidationCore metrics block they own.      *)
(*                                                                         *)
(* Number representation.  TLC's integers are 32-bit signed, so            *)
(*   - the unsigned 32-bit frequency domain is modelled as 0..UINT32_MAX   *)
(*     with UINT32_MAX standing for the top of the representable domain;   *)
(*     no operation of the program wraps a uint32_t, so only the order of  *)
(*     the values matters;                                                 *)
(*   - the 64-bit product abs_diff * 1000000 is never formed: its          *)
(*     quotient by the reference is computed by an exact two-step long     *)
(*     division (ScaledQuotient);                                          *)
(*   - a double holding frequency / 48000.0 is the exact ratio             *)
(*     [num, den] (distinct uint32 numerators give distinct doubles);      *)
(*   - a double holding a ppm value is the exact decimal                   *)
(*     [whole, milli] (whole + milli/1000), or DBL_MAX.                    *)
(***************************************************************************)
EXTENDS Integers, Sequences, FiniteSets, TLC

VARIABLES
    \* ---- FrequencyValidator instance (sequential use) ----
    fv_metrics,        \* ValidationMetrics of the validator's ValidationCore
    fv_history,        \* the last two operations on the validator, newest last
    fv_calls,          \* number of operations issued so far (bounds the run)
    fv_nonzero_calls,  \* validate_frequency calls with nonzero frequency since
                       \* construction or the last reset_metrics
    \* ---- threads calling validate_frequency concurrently ----
    fv_pc,             \* per thread: position inside validate_frequency
    fv_local,          \* per thread: arguments, result, duration_u64,
                       \* current_max, and whether a compare-exchange failed
                       \* spuriously
    current_tolerance_ppm_,  \* FrequencyValidator::current_tolerance_ppm_
    fv_largest,        \* largest duration_u64 of a nonzero-frequency call since
                       \* construction or the last reset_metrics
    \* ---- pure-function harness: find_closest_standard_frequency ----
    fc_input,          \* argument
    fc_result,         \* NoResult, or [value, path]
    \* ---- pure-function harness: calculate_tolerance_ppm ----
    ppm_input,         \* [measured, reference]
    ppm_result,        \* NoResult, or a ppm double
    \* ---- RateCategoryManager instance ----
    last_frequency_,   \* single-slot cache: frequency
    last_category_,    \* single-slot cache: category
    last_multiplier_,  \* single-slot cache: multiplier
    rcm_metrics,       \* ValidationMetrics of the manager's ValidationCore
    rcm_history,       \* the last two completed classify calls, newest last
    rcm_calls,         \* number of calls issued so far (bounds the run)
    \* ---- threads calling classify_rate_category concurrently ----
    pc,                \* per thread: position inside classify_rate_category
    arg,               \* per thread: frequency_hz of the call in progress
    local,             \* per thread: locals / result under construction
    done_calls,        \* per thread: number of completed calls
    called,            \* the frequencies passed by the threads' calls so far
    all_distinct,      \* every call so far passed a nonzero frequency that no
                       \* earlier call had passed
    \* ---- ValidationCore instance ----
    vc_metrics,        \* metrics_: the five atomic counters
    vc_last,           \* the last operation of a sequential caller, or NoResult
    vc_calls,          \* number of sequential operations issued so far
    vc_prev,           \* name of the sequential caller's latest operation,
                       \* "none" on a new instance
    vc_refused,        \* the ceilings meets_realtime_constraints has answered
                       \* false for since construction or the last reset
    \* ---- threads calling ValidationCore::validate concurrently ----
    vc_pc,             \* per thread: position inside validate / update_metrics
    vc_local,          \* per thread: result, latency_ns, current_max, and
                       \* whether a compare-exchange failed spuriously
    vc_started,        \* per thread: number of calls started
    vc_returned,       \* calls that have returned: [valid, failed], and
                       \* the largest latency one of them recorded
    vc_other           \* ValidationMetrics of a second ValidationCore

fv_vars  == <<fv_metrics, fv_history, fv_calls, fv_nonzero_calls, fv_pc,
              fv_local, current_tolerance_ppm_, fv_largest>>
fc_vars  == <<fc_input, fc_result>>
ppm_vars == <<ppm_input, ppm_result>>
rcm_vars == <<last_frequency_, last_category_, last_multiplier_, rcm_metrics,
              rcm_history, rcm_calls>>
thr_vars == <<pc, arg, local, done_calls, called, all_distinct>>
core_vars == <<vc_metrics, vc_last, vc_calls, vc_prev, vc_refused, vc_pc,
               vc_local, vc_started, vc_returned, vc_other>>
vars == <<fv_vars, fc_vars, ppm_vars, rcm_vars, thr_vars, core_vars>>

NoResult == [none |-> TRUE]

-----------------------------------------------------------------------------
(* Bounds of the model *)

\* dense frequency domain 0..MaxFrequencyHz of the pure-function harnesses
MaxFrequencyHz == 520000
\* measured durations are drawn from 0..MaxLatencyNs
MaxLatencyNs == 1
\* operations on the FrequencyValidator per run
MaxCalls == 2
\* calls on the RateCategoryManager per sequential run
MaxRcmCalls == 3
\* operations per run on a validator and a manager used side by side
MaxContractCalls == 3
\* operations on the ValidationCore per sequential run
MaxCoreCalls == 3
\* batch sizes are drawn from 0..MaxBatchCount
MaxBatchCount == 18
\* threads racing on one ValidationCore
NumCoreThreads == 2
\* validate calls per thread
MaxCoreCallsPerThread == 2
\* validate calls of all threads together
MaxCoreRaceCalls == 2
\* classify calls of all threads together
MaxRaceCalls == 2
\* threads racing on one FrequencyValidator
NumFvThreads == 2
\* validate_frequency calls of all threads together
MaxFvRaceCalls == 2
\* calls of all threads on both instances together, liveness
MaxLiveCalls == 2
\* operations on the two ValidationCore objects and the factories
MaxObjectCalls == 3
\* largest latency of a sample when the running maximum is raced for
MaxRaceLatencyNs == 2
\* reset_metrics calls issued while other threads validate
MaxRaceResets == 1
\* threads racing on one RateCategoryManager
NumThreads == 2
\* classify calls per thread
MaxCallsPerThread == 1

-----------------------------------------------------------------------------
(* Program constants *)

UINT32_MAX == 2147483647

BASE_FREQUENCY_HZ == 48000
QUARTER_RATE_MIN_HZ == 7750
QUARTER_RATE_MAX_HZ == 13500
HALF_RATE_MIN_HZ == 15500
HALF_RATE_MAX_HZ == 27000
BASIC_RATE_MIN_HZ == 31000
BASIC_RATE_MAX_HZ == 54000
DOUBLE_RATE_MIN_HZ == 62000
DOUBLE_RATE_MAX_HZ == 108000
QUADRUPLE_RATE_MIN_HZ == 124000
QUADRUPLE_RATE_MAX_HZ == 216000
OCTUPLE_RATE_MIN_HZ == 248000
OCTUPLE_RATE_MAX_HZ == 432000

\* size of the kHz-indexed lookup tables (declared outside the sources at hand)
FREQUENCY_LOOKUP_SIZE == 512

DEFAULT_TOLERANCE_PPM == 100

MAX_BATCH_SIZE == 16

STANDARD_FREQUENCIES ==
    <<32000, 44100, 47952, 48000, 48048, 88200, 96000, 176400, 192000, 384000>>

EXACT_STANDARDS ==
    <<32000, 44100, 47952, 48000, 48048, 88200, 96000, 176400, 192000, 384000>>

FrequencyRange(lo, hi, std) ==
    [min_freq |-> lo, max_freq |-> hi, standard_freq |-> std]

\* FREQUENCY_LOOKUP_TABLE with 38051 left out of the second range
FrequencyLookupTableWithGap ==
    << FrequencyRange(0,      38050,      32000),
       FrequencyRange(38052,  45999,      44100),
       FrequencyRange(46000,  47499,      47952),
       FrequencyRange(47500,  47899,      47952),
       FrequencyRange(47900,  48150,      48000),
       FrequencyRange(48151,  60000,      48048),
       FrequencyRange(60001,  92000,      88200),
       FrequencyRange(92001,  100000,     96000),
       FrequencyRange(100001, 180000,     176400),
       FrequencyRange(180001, 350000,     192000),
       FrequencyRange(350001, UINT32_MAX, 384000) >>

FREQUENCY_LOOKUP_TABLE ==
    << FrequencyRange(0,      38050,      32000),
       FrequencyRange(38051,  45999,      44100),
       FrequencyRange(46000,  47499,      47952),
       FrequencyRange(47500,  47899,      47952),
       FrequencyRange(47900,  48150,      48000),
       FrequencyRange(48151,  60000,      48048),
       FrequencyRange(60001,  92000,      88200),
       FrequencyRange(92001,  100000,     96000),
       FrequencyRange(100001, 180000,     176400),
       FrequencyRange(180001, 350000,     192000),
       FrequencyRange(350001, UINT32_MAX, 384000) >>

ToleranceLookup(m, r, p) ==
    [measured_freq |-> m, reference_freq |-> r, ppm_x1000 |-> p]

PPM_LOOKUP_TABLE ==
    << ToleranceLookup(32000, 32000, 0),   ToleranceLookup(44100, 44100, 0),
       ToleranceLookup(47952, 47952, 0),   ToleranceLookup(48000, 48000, 0),
       ToleranceLookup(48048, 48048, 0),   ToleranceLookup(88200, 88200, 0),
       ToleranceLookup(96000, 96000, 0),   ToleranceLookup(176400, 176400, 0),
       ToleranceLookup(192000, 192000, 0), ToleranceLookup(384000, 384000, 0),
       ToleranceLookup(47999, 48000, 20),
       ToleranceLookup(48001, 48000, 20),
       ToleranceLookup(47900, 48000, 2083),
       ToleranceLookup(35000, 32000, 93750),
       ToleranceLookup(40000, 44100, 93012),
       ToleranceLookup(70000, 96000, 270833) >>

-----------------------------------------------------------------------------
(* Doubles *)

\* the double n / d, for the fixed divisor d of the program
Ratio(n, d) == [num |-> n, den |-> d]
\* the double 0.0 as a multiplier
ZeroMultiplier == Ratio(0, 1)

\* the double whole + milli / 1000
Ppm(w, m) == [whole |-> w, milli |-> m, max |-> FALSE]
\* std::numeric_limits<double>::max()
DBL_MAX == [whole |-> 0, milli |-> 0, max |-> TRUE]

\* static_cast<double>(x) / 1000.0
DivideBy1000(x) == Ppm(x \div 1000, x % 1000)

\* ppm <= tolerance_ppm, the right side an unsigned integer converted to double
PpmLessOrEqual(ppm, tolerance_ppm) ==
    /\ ~ppm.max
    /\ \/ ppm.whole < tolerance_ppm
       \/ ppm.whole = tolerance_ppm /\ ppm.milli = 0

-----------------------------------------------------------------------------
(* FrequencyValidator: pure functions *)

\* get_aes5_clause_for_frequency without the case labels 47952 and 48048
ClauseWithoutPullRates(frequency) ==
    CASE frequency = 48000 -> "Section_5_1"
      [] frequency \in {44100, 88200, 96000, 176400, 192000, 384000} -> "Section_5_2"
      [] frequency = 32000 -> "Section_5_4"
      [] OTHER -> "Unknown"

get_aes5_clause_for_frequency(frequency) ==
    CASE frequency = 48000 -> "Section_5_1"
      [] frequency \in {44100, 88200, 96000, 176400, 192000, 384000} -> "Section_5_2"
      [] frequency = 32000 -> "Section_5_4"
      [] frequency \in {47952, 48048} -> "Annex_A"
      [] OTHER -> "Unknown"

\* for (exact_freq : EXACT_STANDARDS) if (frequency == exact_freq) return ...
\* 0 when the scan from index i finds nothing
RECURSIVE ExactScan(_, _)
ExactScan(frequency, i) ==
    IF i > Len(EXACT_STANDARDS) THEN 0
    ELSE IF frequency = EXACT_STANDARDS[i] THEN EXACT_STANDARDS[i]
    ELSE ExactScan(frequency, i + 1)

\* FamilyRule with the pull-down cut one below
FamilyRuleCutBelow(frequency) ==
    IF frequency = 47952 THEN 47952
    ELSE IF frequency = 48000 THEN 48000
    ELSE IF frequency = 48048 THEN 48048
    ELSE IF frequency < 47976 THEN 47952
    ELSE IF frequency >= 48151 THEN 48048
    ELSE 48000

\* the 47900..48150 block of find_closest_standard_frequency
FamilyRule(frequency) ==
    IF frequency = 47952 THEN 47952
    ELSE IF frequency = 48000 THEN 48000
    ELSE IF frequency = 48048 THEN 48048
    ELSE IF frequency <= 47976 THEN 47952
    ELSE IF frequency >= 48151 THEN 48048
    ELSE 48000

\* for (range : FREQUENCY_LOOKUP_TABLE) ...; then the post-loop fallback
RECURSIVE TableScan(_, _)
TableScan(frequency, i) ==
    IF i > Len(FREQUENCY_LOOKUP_TABLE)
    THEN [value |-> STANDARD_FREQUENCIES[1], path |-> "fallback"]
    ELSE IF /\ frequency >= FREQUENCY_LOOKUP_TABLE[i].min_freq
            /\ frequency <= FREQUENCY_LOOKUP_TABLE[i].max_freq
    THEN [value |-> FREQUENCY_LOOKUP_TABLE[i].standard_freq, path |-> "table"]
    ELSE TableScan(frequency, i + 1)

\* find_closest_standard_frequency with the return statement that was taken
FindClosest(frequency) ==
    IF frequency = 0
    THEN [value |-> STANDARD_FREQUENCIES[1], path |-> "zero"]
    ELSE IF ExactScan(frequency, 1) # 0
    THEN [value |-> ExactScan(frequency, 1), path |-> "exact"]
    ELSE IF frequency >= 47900 /\ frequency <= 48150
    THEN [value |-> FamilyRule(frequency), path |-> "family"]
    ELSE TableScan(frequency, 1)

find_closest_standard_frequency(frequency) == FindClosest(frequency).value

\* 0 when no entry of PPM_LOOKUP_TABLE from index i on matches, else index
RECURSIVE PpmTableScan(_, _, _)
PpmTableScan(measured_frequency, reference_frequency, i) ==
    IF i > Len(PPM_LOOKUP_TABLE) THEN 0
    ELSE IF /\ PPM_LOOKUP_TABLE[i].measured_freq = measured_frequency
            /\ PPM_LOOKUP_TABLE[i].reference_freq = reference_frequency
    THEN i
    ELSE PpmTableScan(measured_frequency, reference_frequency, i + 1)

AbsDiff(a, b) == IF a > b THEN a - b ELSE b - a

\* (abs_diff * 1000000ULL) / reference_frequency, the product never formed:
\* with a = abs_diff * 1000 = q * r + m, a * 1000 \div r = q * 1000 + (m * 1000) \div r
ScaledQuotient(abs_diff, reference_frequency) ==
    LET a == abs_diff * 1000
        q == a \div reference_frequency
        m == a % reference_frequency
    IN  q * 1000 + (m * 1000) \div reference_frequency

\* calculate_tolerance_ppm with the equality check ahead of the zero check
CalculateTolerancePpmEqualityFirst(measured_frequency, reference_frequency) ==
    IF measured_frequency = reference_frequency THEN Ppm(0, 0)
    ELSE IF reference_frequency = 0 THEN DBL_MAX
    ELSE IF PpmTableScan(measured_frequency, reference_frequency, 1) # 0
    THEN DivideBy1000(
             PPM_LOOKUP_TABLE[PpmTableScan(measured_frequency,
                                           reference_frequency, 1)].ppm_x1000)
    ELSE Ppm(ScaledQuotient(AbsDiff(measured_frequency, reference_frequency),
                            reference_frequency), 0)

calculate_tolerance_ppm(measured_frequency, reference_frequency) ==
    IF reference_frequency = 0 THEN DBL_MAX
    ELSE IF measured_frequency = reference_frequency THEN Ppm(0, 0)
    ELSE IF PpmTableScan(measured_frequency, reference_frequency, 1) # 0
    THEN DivideBy1000(
             PPM_LOOKUP_TABLE[PpmTableScan(measured_frequency,
                                           reference_frequency, 1)].ppm_x1000)
    ELSE Ppm(ScaledQuotient(AbsDiff(measured_frequency, reference_frequency),
                            reference_frequency), 0)


\* ValidateFrequencyResult without the frequency == 0 check
ValidateFrequencyResultNoZeroCheck(frequency, tolerance_ppm) ==
    LET closest == find_closest_standard_frequency(frequency)
        ppm == calculate_tolerance_ppm(frequency, closest)
    IN  [status |-> IF PpmLessOrEqual(ppm, tolerance_ppm)
                    THEN "Valid" ELSE "OutOfTolerance",
         detected_frequency |-> frequency,
         closest_standard_frequency |-> closest,
         tolerance_ppm |-> ppm,
         applicable_clause |-> get_aes5_clause_for_frequency(closest)]

\* the body of validate_frequency that builds the returned value
ValidateFrequencyResult(frequency, tolerance_ppm) ==
    IF frequency = 0
    THEN [status |-> "InvalidInput",
          detected_frequency |-> frequency,
          closest_standard_frequency |-> 0,
          tolerance_ppm |-> Ppm(0, 0),
          applicable_clause |-> "Unknown"]
    ELSE LET closest == find_closest_standard_frequency(frequency)
             ppm == calculate_tolerance_ppm(frequency, closest)
         IN  [status |-> IF PpmLessOrEqual(ppm, tolerance_ppm)
                         THEN "Valid" ELSE "OutOfTolerance",
              detected_frequency |-> frequency,
              closest_standard_frequency |-> closest,
              tolerance_ppm |-> ppm,
              applicable_clause |-> get_aes5_clause_for_frequency(closest)]

\* validate_frequency_internal: the result without the zero check and
\* without the metrics block
validate_frequency_internal(frequency, tolerance_ppm) ==
    LET closest == find_closest_standard_frequency(frequency)
        ppm == calculate_tolerance_ppm(frequency, closest)
    IN  [status |-> IF PpmLessOrEqual(ppm, tolerance_ppm)
                    THEN "Valid" ELSE "OutOfTolerance",
         detected_frequency |-> frequency,
         closest_standard_frequency |-> closest,
         tolerance_ppm |-> ppm,
         applicable_clause |-> get_aes5_clause_for_frequency(closest)]

\* the void* context of frequency_validation_function: null, or the validator
ValidatorPointer == [null |-> FALSE]
ContextPointers == {[null |-> TRUE], ValidatorPointer}

\* frequency_validation_function sending a zero frequency on to
\* validate_frequency_internal
FrequencyValidationFunctionNoZeroCheck(frequency, context) ==
    IF context.null
    THEN "InternalError"
    ELSE validate_frequency_internal(frequency, current_tolerance_ppm_).status

frequency_validation_function(frequency, context) ==
    IF context.null
    THEN "InternalError"
    ELSE IF frequency = 0
    THEN "InvalidInput"
    ELSE validate_frequency_internal(frequency, current_tolerance_ppm_).status

-----------------------------------------------------------------------------
(* ValidationCore: metrics *)

ZeroMetrics ==
    [total_validations |-> 0, successful_validations |-> 0,
     failed_validations |-> 0, max_latency_ns |-> 0, total_latency_ns |-> 0]

\* RecordValidation counting only the calls that failed
RecordValidationFailuresOnly(m, status, duration_ns) ==
    [total_validations |->
         m.total_validations + (IF status = "Valid" THEN 0 ELSE 1),
     successful_validations |-> m.successful_validations,
     failed_validations |->
         m.failed_validations + (IF status = "Valid" THEN 0 ELSE 1),
     total_latency_ns |-> m.total_latency_ns + duration_ns,
     max_latency_ns |->
         IF duration_ns > m.max_latency_ns THEN duration_ns ELSE m.max_latency_ns]

\* RecordValidation counting every call as successful
RecordValidationAllSuccessful(m, status, duration_ns) ==
    [total_validations |-> m.total_validations + 1,
     successful_validations |-> m.successful_validations + 1,
     failed_validations |-> m.failed_validations,
     total_latency_ns |-> m.total_latency_ns + duration_ns,
     max_latency_ns |->
         IF duration_ns > m.max_latency_ns THEN duration_ns ELSE m.max_latency_ns]

\* the metrics block of validate_frequency (fetch_adds, then the CAS loop on
\* max_latency_ns), run without interference
RecordValidation(m, status, duration_ns) ==
    [total_validations |-> m.total_validations + 1,
     successful_validations |->
         m.successful_validations + (IF status = "Valid" THEN 1 ELSE 0),
     failed_validations |->
         m.failed_validations + (IF status = "Valid" THEN 0 ELSE 1),
     total_latency_ns |-> m.total_latency_ns + duration_ns,
     max_latency_ns |->
         IF duration_ns > m.max_latency_ns THEN duration_ns ELSE m.max_latency_ns]

\* update_metrics leaving max_latency_ns alone
UpdateMetricsWithoutMax(m, result, latency_ns) ==
    [total_validations |-> m.total_validations + 1,
     total_latency_ns |-> m.total_latency_ns + latency_ns,
     successful_validations |->
         m.successful_validations + (IF result = "Valid" THEN 1 ELSE 0),
     failed_validations |->
         m.failed_validations + (IF result = "Valid" THEN 0 ELSE 1),
     max_latency_ns |-> m.max_latency_ns]

\* ValidationCore::update_metrics, run without interference
update_metrics(m, result, latency_ns) ==
    [total_validations |-> m.total_validations + 1,
     total_latency_ns |-> m.total_latency_ns + latency_ns,
     successful_validations |->
         m.successful_validations + (IF result = "Valid" THEN 1 ELSE 0),
     failed_validations |->
         m.failed_validations + (IF result = "Valid" THEN 0 ELSE 1),
     max_latency_ns |->
         IF latency_ns > m.max_latency_ns THEN latency_ns ELSE m.max_latency_ns]

-----------------------------------------------------------------------------
(* ValidationCore: validate and batch_validate *)

\* a null pointer (callback or array)
nullptr == [null |-> TRUE]
\* a ValidationFunction pointer to a function computing f[value]
ValidationFunction(f) == [null |-> FALSE, fn |-> f]
\* a pointer to the array a
Array(a) == [null |-> FALSE, at |-> a]

\* validation_function(value, context)
Invoke(validation_function, value) == validation_function.fn[value]

\* ValidateOutcome reporting a null callback as InvalidInput
ValidateOutcomeNullAsInvalidInput(value, validation_function, latency_ns) ==
    IF validation_function.null
    THEN [result |-> "InvalidInput", invoked |-> <<>>, latency_ns |-> 0]
    ELSE [result |-> Invoke(validation_function, value),
          invoked |-> <<value>>,
          latency_ns |-> latency_ns]

\* validate: the returned value, the values the callback was invoked on and
\* the latency handed to update_metrics
ValidateOutcome(value, validation_function, latency_ns) ==
    IF validation_function.null
    THEN [result |-> "InternalError", invoked |-> <<>>, latency_ns |-> 0]
    ELSE [result |-> Invoke(validation_function, value),
          invoked |-> <<value>>,
          latency_ns |-> latency_ns]

\* BatchLoop without the break: every element is evaluated, the first
\* failure is returned
RECURSIVE BatchLoopNoBreak(_, _, _, _)
BatchLoopNoBreak(values, batch_count, validation_function, i) ==
    IF i > batch_count THEN [overall_result |-> "Valid", invoked |-> <<>>]
    ELSE LET result == Invoke(validation_function, values[i])
             rest == BatchLoopNoBreak(values, batch_count, validation_function, i + 1)
         IN  [overall_result |-> IF result # "Valid" THEN result
                                 ELSE rest.overall_result,
              invoked |-> <<i>> \o rest.invoked]

\* for (i = 0; i < batch_count; ++i) { ...; if (result != Valid) break; }
\* from index i on (indices from 1): the overall result and the indices the
\* callback was invoked on, in order
RECURSIVE BatchLoop(_, _, _, _)
BatchLoop(values, batch_count, validation_function, i) ==
    IF i > batch_count THEN [overall_result |-> "Valid", invoked |-> <<>>]
    ELSE LET result == Invoke(validation_function, values[i])
         IN  IF result # "Valid"
             THEN [overall_result |-> result, invoked |-> <<i>>]
             ELSE LET rest == BatchLoop(values, batch_count, validation_function,
                                        i + 1)
                  IN  [overall_result |-> rest.overall_result,
                       invoked |-> <<i>> \o rest.invoked]

\* BatchOutcome rejecting batches larger than MAX_BATCH_SIZE
BatchOutcomeRejectOversize(values, count, validation_function, latency_ns) ==
    IF values.null \/ count = 0 \/ validation_function.null \/ count > MAX_BATCH_SIZE
    THEN [result |-> "InternalError", invoked |-> <<>>, latency_ns |-> 0]
    ELSE LET loop == BatchLoop(values.at, count, validation_function, 1)
         IN  [result |-> loop.overall_result,
              invoked |-> loop.invoked,
              latency_ns |-> latency_ns]

\* batch_validate: the returned value, the indices the callback was invoked
\* on and the latency handed to update_metrics
BatchOutcome(values, count, validation_function, latency_ns) ==
    IF values.null \/ count = 0 \/ validation_function.null
    THEN [result |-> "InternalError", invoked |-> <<>>, latency_ns |-> 0]
    ELSE LET batch_count == IF count > MAX_BATCH_SIZE THEN MAX_BATCH_SIZE
                            ELSE count
             loop == BatchLoop(values.at, batch_count, validation_function, 1)
         IN  [result |-> loop.overall_result,
              invoked |-> loop.invoked,
              latency_ns |-> latency_ns]

-----------------------------------------------------------------------------
(* RateCategoryManager: pure functions *)

\* RangeCheck with the lower edge of the Quarter band excluded
RangeCheckQuarterMinExcluded(frequency_hz) ==
    IF frequency_hz > QUARTER_RATE_MIN_HZ /\ frequency_hz <= QUARTER_RATE_MAX_HZ
    THEN "Quarter"
    ELSE IF frequency_hz >= HALF_RATE_MIN_HZ /\ frequency_hz <= HALF_RATE_MAX_HZ
    THEN "Half"
    ELSE IF frequency_hz >= BASIC_RATE_MIN_HZ /\ frequency_hz <= BASIC_RATE_MAX_HZ
    THEN "Basic"
    ELSE IF frequency_hz >= DOUBLE_RATE_MIN_HZ /\ frequency_hz <= DOUBLE_RATE_MAX_HZ
    THEN "Double"
    ELSE IF /\ frequency_hz >= QUADRUPLE_RATE_MIN_HZ
            /\ frequency_hz <= QUADRUPLE_RATE_MAX_HZ
    THEN "Quadruple"
    ELSE IF frequency_hz >= OCTUPLE_RATE_MIN_HZ /\ frequency_hz <= OCTUPLE_RATE_MAX_HZ
    THEN "Octuple"
    ELSE "Unknown"

\* the six-band if-chain of classify_frequency_optimized, taken when the
\* table is not
RangeCheck(frequency_hz) ==
    IF frequency_hz >= QUARTER_RATE_MIN_HZ /\ frequency_hz <= QUARTER_RATE_MAX_HZ
    THEN "Quarter"
    ELSE IF frequency_hz >= HALF_RATE_MIN_HZ /\ frequency_hz <= HALF_RATE_MAX_HZ
    THEN "Half"
    ELSE IF frequency_hz >= BASIC_RATE_MIN_HZ /\ frequency_hz <= BASIC_RATE_MAX_HZ
    THEN "Basic"
    ELSE IF frequency_hz >= DOUBLE_RATE_MIN_HZ /\ frequency_hz <= DOUBLE_RATE_MAX_HZ
    THEN "Double"
    ELSE IF /\ frequency_hz >= QUADRUPLE_RATE_MIN_HZ
            /\ frequency_hz <= QUADRUPLE_RATE_MAX_HZ
    THEN "Quadruple"
    ELSE IF frequency_hz >= OCTUPLE_RATE_MIN_HZ /\ frequency_hz <= OCTUPLE_RATE_MAX_HZ
    THEN "Octuple"
    ELSE "Unknown"

\* static table, index = kHz
\* the body of the loop that fills frequency_to_category_lookup_: the entry
\* for frequency_hz = i * 1000
LookupEntry(frequency_hz) ==
    IF frequency_hz >= QUARTER_RATE_MIN_HZ /\ frequency_hz <= QUARTER_RATE_MAX_HZ
    THEN "Quarter"
    ELSE IF frequency_hz >= HALF_RATE_MIN_HZ /\ frequency_hz <= HALF_RATE_MAX_HZ
    THEN "Half"
    ELSE IF frequency_hz >= BASIC_RATE_MIN_HZ /\ frequency_hz <= BASIC_RATE_MAX_HZ
    THEN "Basic"
    ELSE IF frequency_hz >= DOUBLE_RATE_MIN_HZ /\ frequency_hz <= DOUBLE_RATE_MAX_HZ
    THEN "Double"
    ELSE IF /\ frequency_hz >= QUADRUPLE_RATE_MIN_HZ
            /\ frequency_hz <= QUADRUPLE_RATE_MAX_HZ
    THEN "Quadruple"
    ELSE IF frequency_hz >= OCTUPLE_RATE_MIN_HZ /\ frequency_hz <= OCTUPLE_RATE_MAX_HZ
    THEN "Octuple"
    ELSE "Unknown"

\* frequency_to_category_lookup_ filled without the Octuple branch
LookupWithoutOctuple ==
    [i \in 0..(FREQUENCY_LOOKUP_SIZE - 1) |->
        IF LookupEntry(i * 1000) = "Octuple" THEN "Unknown"
        ELSE LookupEntry(i * 1000)]

frequency_to_category_lookup_ ==
    [i \in 0..(FREQUENCY_LOOKUP_SIZE - 1) |-> LookupEntry(i * 1000)]

\* classify_frequency_optimized with the path that was taken
ClassifyFrequency(frequency_hz) ==
    LET frequency_khz == frequency_hz \div 1000
    IN  IF frequency_khz < FREQUENCY_LOOKUP_SIZE /\ frequency_hz % 1000 = 0
        THEN [category |-> frequency_to_category_lookup_[frequency_khz],
              path |-> "table"]
        ELSE [category |-> RangeCheck(frequency_hz), path |-> "range"]

classify_frequency_optimized(frequency_hz) == ClassifyFrequency(frequency_hz).category

\* calculate_multiplier_optimized without the category check
CalculateMultiplierUnchecked(frequency_hz) ==
    IF frequency_hz = 0 THEN ZeroMultiplier
    ELSE Ratio(frequency_hz, BASE_FREQUENCY_HZ)

calculate_multiplier_optimized(frequency_hz) ==
    IF frequency_hz = 0 THEN ZeroMultiplier
    ELSE IF classify_frequency_optimized(frequency_hz) = "Unknown" THEN ZeroMultiplier
    ELSE Ratio(frequency_hz, BASE_FREQUENCY_HZ)

classify_rate_category_internal(frequency_hz) ==
    classify_frequency_optimized(frequency_hz)

calculate_multiplier_internal(frequency_hz) ==
    calculate_multiplier_optimized(frequency_hz)

\* context is TRUE for a non-null manager pointer
rate_category_validation_function(frequency, context) ==
    IF ~context THEN "InvalidInput"
    ELSE IF classify_rate_category_internal(frequency) # "Unknown" THEN "Valid"
    ELSE "InvalidInput"

RateCategoryResult(f, c, m, v) ==
    [frequency_hz |-> f, category |-> c, multiplier |-> m, valid |-> v]


-----------------------------------------------------------------------------
(* Inputs *)

Latencies == 0..MaxLatencyNs

StandardSet == {STANDARD_FREQUENCIES[i] : i \in 1..Len(STANDARD_FREQUENCIES)}

\* find_closest_standard_frequency: every value up to MaxFrequencyHz, and
\* values far above the last table boundary
ClosestInputs == (0..MaxFrequencyHz) \cup {1000000, 16777216, UINT32_MAX - 1, UINT32_MAX}

\* classify_rate_category on a new instance: every value up to MaxFrequencyHz
\* (past the last band and past the last table index), and far larger ones
ClassifyInputs == (0..MaxFrequencyHz) \cup {1000000, 16777216, UINT32_MAX}

\* calculate_tolerance_ppm: measured values around every standard and the
\* tabulated pairs; references: the standards, 0 and small values
PpmMeasured ==
    UNION {{s - 100, s - 1, s, s + 1, s + 100} : s \in StandardSet}
        \cup {0, 1, 12345, 35000, 40000, 47900, 48024, 48100, 70000, 1000000}
PpmReferences == StandardSet \cup {0, 1000, 48001}

\* validate_frequency, first call on a new validator: values around every
\* standard, both ends of every FREQUENCY_LOOKUP_TABLE range below 2^21, and
\* tolerances from 0 to the largest
ValidateOnceFrequencies ==
    PpmMeasured \cup {38050, 38051, 45999, 46000, 47499, 47500, 47899, 48150,
                      48151, 60000, 60001, 92000, 92001, 100000, 100001,
                      180000, 180001, 350000, 350001}
ValidateOnceInputs ==
    ValidateOnceFrequencies \X {0, 1, DEFAULT_TOLERANCE_PPM, UINT32_MAX}

\* validate_frequency
FvFrequencies ==
    {0, 12345, 35000, 44100, 44101, 48000, 48040, 48100, 1000000}
FvTolerances == {0, 22, DEFAULT_TOLERANCE_PPM, 200}

\* classify_rate_category in sequence: band edges on the table path and on the
\* range path, values inside and outside the bands
RcmFrequencies ==
    {0, 7749, 7750, 13500, 13501, 24000, 44100, 48000, 54000, 54001, 96000,
     432000, 433000, UINT32_MAX}

\* a validator and a manager used side by side: zero, a value outside every
\* band and a standard frequency
ContractFrequencies == {0, 5000, 48000}

\* classify_rate_category from several threads
RaceFrequencies == {0, 5000, 48000, 96000}

\* ValidationCore: the values handed to callbacks, the outcomes callbacks
\* return, and the callbacks (every function of the value, and nullptr)
CoreValues == {44100, 48000}
CallbackOutcomes == {"Valid", "OutOfTolerance", "InternalError"}
ValidationFunctions ==
    {nullptr} \cup {ValidationFunction(f) : f \in [CoreValues -> CallbackOutcomes]}

\* the array of count elements that holds 44100 at the indices in bad and
\* 48000 elsewhere
Batch(count, bad) ==
    Array([i \in 1..count |-> IF i \in bad THEN 44100 ELSE 48000])

\* batch_validate arguments [values, count]: arrays of every size up to
\* MaxBatchCount with no, one or two odd elements, and the null array
OddIndices(count) ==
    {{}} \cup {{p} : p \in 1..count} \cup {{p, count} : p \in 1..(count - 1)}
BatchArguments ==
    UNION {{[values |-> Batch(count, bad), count |-> count] :
               bad \in OddIndices(count)} : count \in 0..MaxBatchCount}
    \cup {[values |-> nullptr, count |-> count] : count \in {0, 4}}

\* meets_realtime_constraints: every latency, and the default ceiling
RealtimeCeilings == Latencies \cup {100000}

FvThreads == 1..NumFvThreads

\* validate_frequency from several threads: zero, a standard, a value out of
\* tolerance
FvRaceFrequencies == {0, 48000, 48100}

Threads == 1..NumThreads

CoreThreads == 1..NumCoreThreads

\* f[1] + ... + f[n]
RECURSIVE SumTo(_, _)
SumTo(f, n) == IF n = 0 THEN 0 ELSE f[n] + SumTo(f, n - 1)

\* the last two entries of a history with e appended
Push(h, e) == IF Len(h) < 2 THEN Append(h, e) ELSE <<h[2], e>>

-----------------------------------------------------------------------------
(* Initial states *)

FvInit ==
    /\ fv_metrics = ZeroMetrics
    /\ fv_history = <<>>
    /\ fv_calls = 0
    /\ fv_nonzero_calls = 0
    /\ fv_pc = [t \in FvThreads |-> "idle"]
    /\ fv_local = [t \in FvThreads |-> NoResult]
    /\ current_tolerance_ppm_ = DEFAULT_TOLERANCE_PPM
    /\ fv_largest = 0

FcIdle ==
    /\ fc_input = 0
    /\ fc_result = NoResult

PpmIdle ==
    /\ ppm_input = [measured |-> 0, reference |-> 0]
    /\ ppm_result = NoResult

\* RateCategoryManager constructor
RcmInit ==
    /\ last_frequency_ = 0
    /\ last_category_ = "Unknown"
    /\ last_multiplier_ = ZeroMultiplier
    /\ rcm_metrics = ZeroMetrics
    /\ rcm_history = <<>>
    /\ rcm_calls = 0

ThrInit ==
    /\ pc = [t \in Threads |-> "idle"]
    /\ arg = [t \in Threads |-> 0]
    /\ local = [t \in Threads |-> NoResult]
    /\ done_calls = [t \in Threads |-> 0]
    /\ called = {}
    /\ all_distinct = TRUE

\* ValidationCore constructor; no call in progress
CoreInit ==
    /\ vc_metrics = ZeroMetrics
    /\ vc_last = NoResult
    /\ vc_calls = 0
    /\ vc_prev = "none"
    /\ vc_refused = {}
    /\ vc_pc = [t \in CoreThreads |-> "idle"]
    /\ vc_local = [t \in CoreThreads |-> NoResult]
    /\ vc_started = [t \in CoreThreads |-> 0]
    /\ vc_returned = [valid |-> 0, failed |-> 0, largest |-> 0]
    /\ vc_other = ZeroMetrics

-----------------------------------------------------------------------------
(* FrequencyValidator: operations *)

\* validate_frequency with the metrics block run for frequency 0 as well
ValidateFrequencyAlwaysRecorded(frequency, tolerance_ppm, duration_ns) ==
    LET result == ValidateFrequencyResult(frequency, tolerance_ppm)
        metrics == RecordValidation(fv_metrics, result.status, duration_ns)
    IN  /\ fv_metrics' = metrics
        /\ fv_history' = Push(fv_history,
                              [op |-> "validate_frequency",
                               frequency |-> frequency,
                               tolerance_ppm |-> tolerance_ppm,
                               result |-> result,
                               metrics_before |-> fv_metrics,
                               metrics_after |-> metrics,
                               total_after |-> metrics.total_validations])
        /\ fv_calls' = fv_calls + 1
        /\ fv_nonzero_calls' = fv_nonzero_calls + (IF frequency = 0 THEN 0 ELSE 1)
        /\ fv_largest' = IF frequency # 0 /\ duration_ns > fv_largest
                         THEN duration_ns ELSE fv_largest
        /\ UNCHANGED <<fv_pc, fv_local, current_tolerance_ppm_,
                       fc_vars, ppm_vars, rcm_vars, thr_vars, core_vars>>

validate_frequency(frequency, tolerance_ppm, duration_ns) ==
    LET result == ValidateFrequencyResult(frequency, tolerance_ppm)
        metrics == IF frequency = 0 THEN fv_metrics
                   ELSE RecordValidation(fv_metrics, result.status, duration_ns)
    IN  /\ fv_metrics' = metrics
        /\ fv_history' = Push(fv_history,
                              [op |-> "validate_frequency",
                               frequency |-> frequency,
                               tolerance_ppm |-> tolerance_ppm,
                               result |-> result,
                               metrics_before |-> fv_metrics,
                               metrics_after |-> metrics,
                               total_after |-> metrics.total_validations])
        /\ fv_calls' = fv_calls + 1
        /\ fv_nonzero_calls' = fv_nonzero_calls + (IF frequency = 0 THEN 0 ELSE 1)
        /\ fv_largest' = IF frequency # 0 /\ duration_ns > fv_largest
                         THEN duration_ns ELSE fv_largest
        /\ UNCHANGED <<fv_pc, fv_local, current_tolerance_ppm_,
                       fc_vars, ppm_vars, rcm_vars, thr_vars, core_vars>>

\* FrequencyValidator::reset_metrics -> ValidationCore::reset_metrics
fv_reset_metrics ==
    /\ fv_metrics' = ZeroMetrics
    /\ fv_history' = Push(fv_history, [op |-> "reset_metrics"])
    /\ fv_calls' = fv_calls + 1
    /\ fv_nonzero_calls' = 0
    /\ fv_largest' = 0
    /\ UNCHANGED <<fv_pc, fv_local, current_tolerance_ppm_,
                   fc_vars, ppm_vars, rcm_vars, thr_vars, core_vars>>

\* a call of frequency_validation_function(frequency, context)
FrequencyValidationCall(frequency, context) ==
    /\ UNCHANGED fv_metrics
    /\ fv_history' = Push(fv_history,
                          [op |-> "frequency_validation_function",
                           frequency |-> frequency,
                           context |-> context,
                           status |-> frequency_validation_function(frequency,
                                                                    context),
                           metrics_before |-> fv_metrics,
                           metrics_after |-> fv_metrics'])
    /\ fv_calls' = fv_calls + 1
    /\ UNCHANGED <<fv_nonzero_calls, fv_pc, fv_local,
                   current_tolerance_ppm_, fv_largest,
                   fc_vars, ppm_vars, rcm_vars, thr_vars, core_vars>>

\* RateCategoryManager::reset_metrics that also empties the cache key
RcmResetMetricsClearsCacheKey ==
    /\ rcm_metrics' = ZeroMetrics
    /\ last_frequency_' = 0
    /\ rcm_history' = Push(rcm_history, [op |-> "reset_metrics"])
    /\ rcm_calls' = rcm_calls + 1
    /\ UNCHANGED <<last_category_, last_multiplier_>>
    /\ UNCHANGED <<fv_vars, fc_vars, ppm_vars, thr_vars, core_vars>>

\* RateCategoryManager::reset_metrics: validation_core_->reset_metrics()
rcm_reset_metrics ==
    /\ rcm_metrics' = ZeroMetrics
    /\ rcm_history' = Push(rcm_history, [op |-> "reset_metrics"])
    /\ rcm_calls' = rcm_calls + 1
    /\ UNCHANGED <<last_frequency_, last_category_, last_multiplier_>>
    /\ UNCHANGED <<fv_vars, fc_vars, ppm_vars, thr_vars, core_vars>>

\* a call of find_closest_standard_frequency on the drawn argument
FindClosestCall ==
    /\ fc_result = NoResult
    /\ fc_result' = FindClosest(fc_input)
    /\ UNCHANGED <<fc_input, fv_vars, ppm_vars, rcm_vars, thr_vars, core_vars>>

\* a call of calculate_tolerance_ppm on the drawn arguments
CalculateToleranceCall ==
    /\ ppm_result = NoResult
    /\ ppm_result' = calculate_tolerance_ppm(ppm_input.measured, ppm_input.reference)
    /\ UNCHANGED <<ppm_input, fv_vars, fc_vars, rcm_vars, thr_vars, core_vars>>

-----------------------------------------------------------------------------
(* RateCategoryManager: operations, one caller at a time *)

\* classify_rate_category recording a sample on a cache hit as well
ClassifyRateCategoryAlwaysRecorded(frequency_hz, latency_ns) ==
    LET hit == frequency_hz = last_frequency_
        category == classify_rate_category_internal(frequency_hz)
        multiplier == calculate_multiplier_internal(frequency_hz)
        result == IF hit
                  THEN RateCategoryResult(frequency_hz, last_category_,
                                          last_multiplier_,
                                          last_category_ # "Unknown")
                  ELSE RateCategoryResult(frequency_hz, category, multiplier,
                                          category # "Unknown")
        metrics == update_metrics(rcm_metrics,
                       rate_category_validation_function(frequency_hz, TRUE),
                       latency_ns)
    IN  /\ rcm_metrics' = metrics
        /\ last_frequency_' = IF hit THEN last_frequency_ ELSE frequency_hz
        /\ last_category_' = IF hit THEN last_category_ ELSE category
        /\ last_multiplier_' = IF hit THEN last_multiplier_ ELSE multiplier
        /\ rcm_history' = Push(rcm_history,
                               [op |-> "classify_rate_category",
                                frequency_hz |-> frequency_hz,
                                hit |-> hit,
                                result |-> result,
                                metrics_after |-> metrics])
        /\ rcm_calls' = rcm_calls + 1
        /\ UNCHANGED <<fv_vars, fc_vars, ppm_vars, thr_vars, core_vars>>

\* classify_rate_category that stores the frequency of a miss in the cache
\* and leaves the cached category and multiplier as they were
ClassifyRateCategoryStaleCache(frequency_hz, latency_ns) ==
    LET hit == frequency_hz = last_frequency_
        category == classify_rate_category_internal(frequency_hz)
        multiplier == calculate_multiplier_internal(frequency_hz)
        result == IF hit
                  THEN RateCategoryResult(frequency_hz, last_category_,
                                          last_multiplier_,
                                          last_category_ # "Unknown")
                  ELSE RateCategoryResult(frequency_hz, category, multiplier,
                                          category # "Unknown")
        metrics == IF hit THEN rcm_metrics
                   ELSE update_metrics(rcm_metrics,
                            rate_category_validation_function(frequency_hz, TRUE),
                            latency_ns)
    IN  /\ rcm_metrics' = metrics
        /\ last_frequency_' = IF hit THEN last_frequency_ ELSE frequency_hz
        /\ UNCHANGED <<last_category_, last_multiplier_>>
        /\ rcm_history' = Push(rcm_history,
                               [op |-> "classify_rate_category",
                                frequency_hz |-> frequency_hz,
                                hit |-> hit,
                                result |-> result,
                                metrics_after |-> metrics])
        /\ rcm_calls' = rcm_calls + 1
        /\ UNCHANGED <<fv_vars, fc_vars, ppm_vars, thr_vars, core_vars>>

classify_rate_category(frequency_hz, latency_ns) ==
    LET hit == frequency_hz = last_frequency_
        category == classify_rate_category_internal(frequency_hz)
        multiplier == calculate_multiplier_internal(frequency_hz)
        result == IF hit
                  THEN RateCategoryResult(frequency_hz, last_category_,
                                          last_multiplier_,
                                          last_category_ # "Unknown")
                  ELSE RateCategoryResult(frequency_hz, category, multiplier,
                                          category # "Unknown")
        metrics == IF hit THEN rcm_metrics
                   ELSE update_metrics(rcm_metrics,
                            rate_category_validation_function(frequency_hz, TRUE),
                            latency_ns)
    IN  /\ rcm_metrics' = metrics
        /\ last_frequency_' = IF hit THEN last_frequency_ ELSE frequency_hz
        /\ last_category_' = IF hit THEN last_category_ ELSE category
        /\ last_multiplier_' = IF hit THEN last_multiplier_ ELSE multiplier
        /\ rcm_history' = Push(rcm_history,
                               [op |-> "classify_rate_category",
                                frequency_hz |-> frequency_hz,
                                hit |-> hit,
                                result |-> result,
                                metrics_after |-> metrics])
        /\ rcm_calls' = rcm_calls + 1
        /\ UNCHANGED <<fv_vars, fc_vars, ppm_vars, thr_vars, core_vars>>

\* get_rate_category: classify_rate_category(frequency_hz).category
get_rate_category(frequency_hz, latency_ns) ==
    classify_rate_category(frequency_hz, latency_ns)

\* calculate_rate_multiplier: classify_rate_category(frequency_hz).multiplier
calculate_rate_multiplier(frequency_hz, latency_ns) ==
    classify_rate_category(frequency_hz, latency_ns)

\* is_valid_rate_category: classify_rate_category(frequency_hz).is_valid()
is_valid_rate_category(frequency_hz, latency_ns) ==
    classify_rate_category(frequency_hz, latency_ns)

-----------------------------------------------------------------------------
(* RateCategoryManager: classify_rate_category, statement by statement,     *)
(* called from several threads.  The cache fields are plain objects: each   *)
(* load and each store is a step of its own.                                *)

Call(t, f) ==
    /\ pc[t] \in {"idle", "done"}
    /\ done_calls[t] < MaxCallsPerThread
    /\ SumTo(done_calls, NumThreads) < MaxRaceCalls
    /\ pc' = [pc EXCEPT ![t] = "check_cache"]
    /\ arg' = [arg EXCEPT ![t] = f]
    /\ local' = [local EXCEPT ![t] = NoResult]
    /\ done_calls' = [done_calls EXCEPT ![t] = @ + 1]
    /\ called' = called \cup {f}
    /\ all_distinct' = (all_distinct /\ f # 0 /\ f \notin called)
    /\ UNCHANGED <<fv_vars, fc_vars, ppm_vars, rcm_vars, core_vars>>

\* CheckCache taking any nonzero cached frequency for a hit
CheckCacheAnyNonzeroHits(t) ==
    /\ pc[t] = "check_cache"
    /\ pc' = [pc EXCEPT ![t] = IF arg[t] = last_frequency_ \/ last_frequency_ # 0
                               THEN "hit_category" ELSE "validate"]
    /\ UNCHANGED <<called, all_distinct, arg, local, done_calls,
                   fv_vars, fc_vars, ppm_vars, rcm_vars, core_vars>>

\* if (frequency_hz == last_frequency_)
CheckCache(t) ==
    /\ pc[t] = "check_cache"
    /\ pc' = [pc EXCEPT ![t] = IF arg[t] = last_frequency_
                               THEN "hit_category" ELSE "validate"]
    /\ UNCHANGED <<called, all_distinct, arg, local, done_calls, fv_vars, fc_vars, ppm_vars, rcm_vars, core_vars>>

\* result.category = last_category_
HitCategory(t) ==
    /\ pc[t] = "hit_category"
    /\ local' = [local EXCEPT ![t] =
                    RateCategoryResult(arg[t], last_category_, ZeroMultiplier, FALSE)]
    /\ pc' = [pc EXCEPT ![t] = "hit_multiplier"]
    /\ UNCHANGED <<called, all_distinct, arg, done_calls, fv_vars, fc_vars, ppm_vars, rcm_vars, core_vars>>

\* result.multiplier = last_multiplier_
HitMultiplier(t) ==
    /\ pc[t] = "hit_multiplier"
    /\ local' = [local EXCEPT ![t].multiplier = last_multiplier_]
    /\ pc' = [pc EXCEPT ![t] = "hit_valid"]
    /\ UNCHANGED <<called, all_distinct, arg, done_calls, fv_vars, fc_vars, ppm_vars, rcm_vars, core_vars>>

\* result.valid = (last_category_ != Unknown); return result.
\* The build may load last_category_ again or reuse the value it loaded.
HitValid(t) ==
    /\ pc[t] = "hit_valid"
    /\ \E c \in {last_category_, local[t].category} :
           local' = [local EXCEPT ![t].valid = (c # "Unknown")]
    /\ pc' = [pc EXCEPT ![t] = "done"]
    /\ UNCHANGED <<called, all_distinct, arg, done_calls, fv_vars, fc_vars, ppm_vars, rcm_vars, core_vars>>

\* validation_core_->validate(...), then the three locals
Validate(t, latency_ns) ==
    /\ pc[t] = "validate"
    /\ rcm_metrics' = update_metrics(rcm_metrics,
                          rate_category_validation_function(arg[t], TRUE),
                          latency_ns)
    /\ local' = [local EXCEPT ![t] =
                    RateCategoryResult(arg[t],
                        classify_rate_category_internal(arg[t]),
                        calculate_multiplier_internal(arg[t]),
                        classify_rate_category_internal(arg[t]) # "Unknown")]
    /\ pc' = [pc EXCEPT ![t] = "store_frequency"]
    /\ UNCHANGED <<called, all_distinct, arg, done_calls, last_frequency_, last_category_,
                   last_multiplier_, rcm_history, rcm_calls,
                   fv_vars, fc_vars, ppm_vars, core_vars>>

\* last_frequency_ = frequency_hz
StoreFrequency(t) ==
    /\ pc[t] = "store_frequency"
    /\ last_frequency_' = arg[t]
    /\ pc' = [pc EXCEPT ![t] = "store_category"]
    /\ UNCHANGED <<called, all_distinct, arg, local, done_calls, last_category_, last_multiplier_,
                   rcm_metrics, rcm_history, rcm_calls, fv_vars, fc_vars, ppm_vars, core_vars>>

\* last_category_ = category
StoreCategory(t) ==
    /\ pc[t] = "store_category"
    /\ last_category_' = local[t].category
    /\ pc' = [pc EXCEPT ![t] = "store_multiplier"]
    /\ UNCHANGED <<called, all_distinct, arg, local, done_calls, last_frequency_, last_multiplier_,
                   rcm_metrics, rcm_history, rcm_calls, fv_vars, fc_vars, ppm_vars, core_vars>>

\* last_multiplier_ = multiplier; build and return the result
StoreMultiplier(t) ==
    /\ pc[t] = "store_multiplier"
    /\ last_multiplier_' = local[t].multiplier
    /\ pc' = [pc EXCEPT ![t] = "done"]
    /\ UNCHANGED <<called, all_distinct, arg, local, done_calls, last_frequency_, last_category_,
                   rcm_metrics, rcm_history, rcm_calls, fv_vars, fc_vars, ppm_vars, core_vars>>

-----------------------------------------------------------------------------
(* ValidationCore: operations, one caller at a time *)

validate(value, validation_function, latency_ns) ==
    LET outcome == ValidateOutcome(value, validation_function, latency_ns)
        metrics == update_metrics(vc_metrics, outcome.result, outcome.latency_ns)
    IN  /\ vc_metrics' = metrics
        /\ vc_last' = [op |-> "validate",
                       previous |-> vc_prev,
                       value |-> value,
                       validation_function |-> validation_function,
                       result |-> outcome.result,
                       invoked |-> outcome.invoked,
                       latency_ns |-> outcome.latency_ns,
                       metrics_before |-> vc_metrics,
                       metrics_after |-> metrics]
        /\ vc_calls' = vc_calls + 1
        /\ vc_prev' = "validate"
        /\ UNCHANGED <<vc_pc, vc_local, vc_started, vc_returned, vc_refused,
                       vc_other, fv_vars, fc_vars, ppm_vars, rcm_vars, thr_vars>>

\* batch_validate recording one sample per evaluated element
BatchValidateSamplePerElement(values, count, validation_function, latency_ns) ==
    LET outcome == BatchOutcome(values, count, validation_function, latency_ns)
        metrics == update_metrics(vc_metrics, outcome.result, outcome.latency_ns)
    IN  /\ vc_metrics' = [metrics EXCEPT !.total_validations =
                              vc_metrics.total_validations + Len(outcome.invoked)]
        /\ vc_last' = [op |-> "batch_validate",
                       previous |-> vc_prev,
                       values |-> values,
                       count |-> count,
                       validation_function |-> validation_function,
                       result |-> outcome.result,
                       invoked |-> outcome.invoked,
                       latency_ns |-> outcome.latency_ns,
                       metrics_before |-> vc_metrics,
                       metrics_after |-> vc_metrics']
        /\ vc_calls' = vc_calls + 1
        /\ vc_prev' = "batch_validate"
        /\ UNCHANGED <<vc_pc, vc_local, vc_started, vc_returned, vc_refused,
                       vc_other, fv_vars, fc_vars, ppm_vars, rcm_vars, thr_vars>>

batch_validate(values, count, validation_function, latency_ns) ==
    LET outcome == BatchOutcome(values, count, validation_function, latency_ns)
        metrics == update_metrics(vc_metrics, outcome.result, outcome.latency_ns)
    IN  /\ vc_metrics' = metrics
        /\ vc_last' = [op |-> "batch_validate",
                       previous |-> vc_prev,
                       values |-> values,
                       count |-> count,
                       validation_function |-> validation_function,
                       result |-> outcome.result,
                       invoked |-> outcome.invoked,
                       latency_ns |-> outcome.latency_ns,
                       metrics_before |-> vc_metrics,
                       metrics_after |-> metrics]
        /\ vc_calls' = vc_calls + 1
        /\ vc_prev' = "batch_validate"
        /\ UNCHANGED <<vc_pc, vc_local, vc_started, vc_returned, vc_refused,
                       vc_other, fv_vars, fc_vars, ppm_vars, rcm_vars, thr_vars>>

\* reset_metrics without the store to max_latency_ns
ResetMetricsKeepsMaxLatency ==
    /\ vc_metrics' = [ZeroMetrics EXCEPT
                          !.max_latency_ns = vc_metrics.max_latency_ns]
    /\ vc_last' = [op |-> "reset_metrics",
                   previous |-> vc_prev,
                   metrics_before |-> vc_metrics]
    /\ vc_calls' = vc_calls + 1
    /\ vc_prev' = "reset_metrics"
    /\ vc_refused' = {}
    /\ UNCHANGED <<vc_pc, vc_local, vc_started, vc_returned,
                   vc_other, fv_vars, fc_vars, ppm_vars, rcm_vars, thr_vars>>

\* ValidationCore::reset_metrics
reset_metrics ==
    /\ vc_metrics' = ZeroMetrics
    /\ vc_last' = [op |-> "reset_metrics",
                   previous |-> vc_prev,
                   metrics_before |-> vc_metrics]
    /\ vc_calls' = vc_calls + 1
    /\ vc_prev' = "reset_metrics"
    /\ vc_refused' = {}
    /\ UNCHANGED <<vc_pc, vc_local, vc_started, vc_returned,
                   vc_other, fv_vars, fc_vars, ppm_vars, rcm_vars, thr_vars>>

\* meets_realtime_constraints comparing with < in place of <=
MeetsRealtimeConstraintsStrict(max_latency_ns) ==
    LET result == vc_metrics.max_latency_ns < max_latency_ns
    IN  /\ vc_last' = [op |-> "meets_realtime_constraints",
                       previous |-> vc_prev,
                       max_latency_ns |-> max_latency_ns,
                       result |-> result,
                       metrics_before |-> vc_metrics,
                       refused_before |-> vc_refused]
        /\ vc_calls' = vc_calls + 1
        /\ vc_refused' = IF result THEN vc_refused
                         ELSE vc_refused \cup {max_latency_ns}
        /\ UNCHANGED <<vc_metrics, vc_prev, vc_pc, vc_local, vc_started,
                       vc_returned,
                       vc_other, fv_vars, fc_vars, ppm_vars, rcm_vars, thr_vars>>

\* ValidationCore::meets_realtime_constraints:
\* return metrics_.max_latency_ns.load() <= max_latency_ns
meets_realtime_constraints(max_latency_ns) ==
    LET result == vc_metrics.max_latency_ns <= max_latency_ns
    IN  /\ vc_last' = [op |-> "meets_realtime_constraints",
                       previous |-> vc_prev,
                       max_latency_ns |-> max_latency_ns,
                       result |-> result,
                       metrics_before |-> vc_metrics,
                       refused_before |-> vc_refused]
        /\ vc_calls' = vc_calls + 1
        /\ vc_refused' = IF result THEN vc_refused
                         ELSE vc_refused \cup {max_latency_ns}
        /\ UNCHANGED <<vc_metrics, vc_prev, vc_pc, vc_local, vc_started,
                       vc_returned,
                       vc_other, fv_vars, fc_vars, ppm_vars, rcm_vars, thr_vars>>

\* the caller is done with the result of its last operation
CoreResultDropped ==
    /\ vc_last # NoResult
    /\ vc_last' = NoResult
    /\ UNCHANGED <<vc_metrics, vc_calls, vc_pc, vc_local, vc_started, vc_returned,
                   vc_prev, vc_refused,
                       vc_other, fv_vars, fc_vars, ppm_vars, rcm_vars, thr_vars>>

-----------------------------------------------------------------------------
(* Two ValidationCore objects, "this" (vc_metrics) and "other" (vc_other):   *)
(* copy and move; the factories that take a core                            *)

\* validate on the second ValidationCore
OtherValidate(value, validation_function, latency_ns) ==
    LET outcome == ValidateOutcome(value, validation_function, latency_ns)
    IN  /\ vc_other' = update_metrics(vc_other, outcome.result,
                                      outcome.latency_ns)
        /\ vc_last' = [op |-> "other.validate",
                       this_before |-> vc_metrics,
                       other_before |-> vc_other]
        /\ vc_calls' = vc_calls + 1
        /\ UNCHANGED <<vc_metrics, vc_prev, vc_refused, vc_pc, vc_local,
                       vc_started, vc_returned,
                       fv_vars, fc_vars, ppm_vars, rcm_vars, thr_vars>>

\* what a copy or move operation leaves behind: the record of the operation
\* and the counters of the destination
CopyOrMove(op, other, metrics) ==
    /\ vc_metrics' = metrics
    /\ vc_last' = [op |-> op,
                   other |-> other,
                   this_before |-> vc_metrics,
                   other_before |-> vc_other]
    /\ vc_calls' = vc_calls + 1
    /\ vc_prev' = IF metrics = vc_metrics THEN vc_prev ELSE "reset_metrics"
    /\ vc_refused' = IF metrics = vc_metrics THEN vc_refused ELSE {}
    /\ UNCHANGED <<vc_other, vc_pc, vc_local, vc_started, vc_returned,
                   fv_vars, fc_vars, ppm_vars, rcm_vars, thr_vars>>

\* ValidationCore(const ValidationCore& other): "this" is built from "other"
\* with metrics_ default-initialised
copy_construct == CopyOrMove("copy_construct", "other", ZeroMetrics)

\* operator=(const ValidationCore&) that copies the counters of other
CopyAssignCopiesCounters(other) ==
    CopyOrMove("copy_assign", other,
               IF other # "this" THEN vc_other ELSE vc_metrics)

\* operator=(const ValidationCore& other): reset_metrics() unless
\* this == &other
copy_assign(other) ==
    CopyOrMove("copy_assign", other,
               IF other # "this" THEN ZeroMetrics ELSE vc_metrics)

\* ValidationCore(ValidationCore&& other)
move_construct == CopyOrMove("move_construct", "other", ZeroMetrics)

\* operator=(ValidationCore&& other): reset_metrics() unless this == &other
move_assign(other) ==
    CopyOrMove("move_assign", other,
               IF other # "this" THEN ZeroMetrics ELSE vc_metrics)

\* a std::unique_ptr<ComplianceEngine> that owns an engine
EnginePointer == [null |-> FALSE]
\* a std::unique_ptr<ValidationCore> that owns the core "this"
CorePointer == [null |-> FALSE, metrics |-> vc_metrics]

\* FrequencyValidator::create requiring only the validation core
FrequencyValidatorCreateIgnoresEngine(compliance_engine, validation_core) ==
    IF validation_core.null
    THEN [null |-> TRUE]
    ELSE [null |-> FALSE,
          metrics |-> validation_core.metrics,
          current_tolerance_ppm_ |-> DEFAULT_TOLERANCE_PPM]

\* FrequencyValidator::create and the constructor it calls: the handle
\* returned; get_metrics() on it reads the core that was moved in
FrequencyValidatorCreate(compliance_engine, validation_core) ==
    IF compliance_engine.null \/ validation_core.null
    THEN [null |-> TRUE]
    ELSE [null |-> FALSE,
          metrics |-> validation_core.metrics,
          current_tolerance_ppm_ |-> DEFAULT_TOLERANCE_PPM]

\* RateCategoryManager::create and the constructor it calls
RateCategoryManagerCreate(validation_core) ==
    IF validation_core.null
    THEN [null |-> TRUE]
    ELSE [null |-> FALSE,
          metrics |-> validation_core.metrics,
          last_frequency_ |-> 0,
          last_category_ |-> "Unknown",
          last_multiplier_ |-> ZeroMultiplier]

\* a call of FrequencyValidator::create; a non-null handle is the validator
\* from then on
CreateFrequencyValidator(compliance_engine, validation_core) ==
    LET handle == FrequencyValidatorCreate(compliance_engine, validation_core)
    IN  /\ vc_last' = [op |-> "FrequencyValidator::create",
                       compliance_engine |-> compliance_engine,
                       validation_core |-> validation_core,
                       handle |-> handle]
        /\ vc_calls' = vc_calls + 1
        /\ fv_metrics' = IF handle.null THEN fv_metrics ELSE handle.metrics
        /\ current_tolerance_ppm_' = IF handle.null THEN current_tolerance_ppm_
                                     ELSE handle.current_tolerance_ppm_
        /\ UNCHANGED <<fv_history, fv_calls, fv_nonzero_calls, fv_pc, fv_local,
                       fv_largest,
                       vc_metrics, vc_prev, vc_refused, vc_pc, vc_local,
                       vc_started, vc_returned, vc_other,
                       fc_vars, ppm_vars, rcm_vars, thr_vars>>

\* a call of RateCategoryManager::create; a non-null handle is the manager
\* from then on
CreateRateCategoryManager(validation_core) ==
    LET handle == RateCategoryManagerCreate(validation_core)
    IN  /\ vc_last' = [op |-> "RateCategoryManager::create",
                       validation_core |-> validation_core,
                       handle |-> handle]
        /\ vc_calls' = vc_calls + 1
        /\ rcm_metrics' = IF handle.null THEN rcm_metrics ELSE handle.metrics
        /\ last_frequency_' = IF handle.null THEN last_frequency_
                              ELSE handle.last_frequency_
        /\ last_category_' = IF handle.null THEN last_category_
                             ELSE handle.last_category_
        /\ last_multiplier_' = IF handle.null THEN last_multiplier_
                               ELSE handle.last_multiplier_
        /\ UNCHANGED <<rcm_history, rcm_calls,
                       vc_metrics, vc_prev, vc_refused, vc_pc, vc_local,
                       vc_started, vc_returned, vc_other,
                       fv_vars, fc_vars, ppm_vars, thr_vars>>

-----------------------------------------------------------------------------
(* ValidationCore: validate called from several threads; update_metrics,    *)
(* one atomic operation per step                                            *)

\* validate up to the call of update_metrics: the null check, the callback
\* and the two timestamps
CoreCall(t, value, validation_function, latency_ns) ==
    LET outcome == ValidateOutcome(value, validation_function, latency_ns)
    IN  /\ vc_pc[t] = "idle"
        /\ vc_started[t] < MaxCoreCallsPerThread
        /\ SumTo(vc_started, NumCoreThreads) < MaxCoreRaceCalls
        /\ vc_started' = [vc_started EXCEPT ![t] = @ + 1]
        /\ vc_local' = [vc_local EXCEPT ![t] =
                            [result |-> outcome.result,
                             latency_ns |-> outcome.latency_ns,
                             current_max |-> 0,
                             spurious |-> FALSE]]
        /\ vc_pc' = [vc_pc EXCEPT ![t] = "fetch_add_total"]
        /\ UNCHANGED <<vc_metrics, vc_last, vc_calls, vc_returned,
                       vc_prev, vc_refused,
                       vc_other, fv_vars, fc_vars, ppm_vars, rcm_vars, thr_vars>>

\* batch_validate up to the call of update_metrics: the argument checks, the
\* loop over the clamped count and the two timestamps
CoreBatchCall(t, values, count, validation_function, latency_ns) ==
    LET outcome == BatchOutcome(values, count, validation_function, latency_ns)
    IN  /\ vc_pc[t] = "idle"
        /\ vc_started[t] < MaxCoreCallsPerThread
        /\ SumTo(vc_started, NumCoreThreads) < MaxCoreRaceCalls
        /\ vc_started' = [vc_started EXCEPT ![t] = @ + 1]
        /\ vc_local' = [vc_local EXCEPT ![t] =
                            [result |-> outcome.result,
                             latency_ns |-> outcome.latency_ns,
                             current_max |-> 0,
                             spurious |-> FALSE]]
        /\ vc_pc' = [vc_pc EXCEPT ![t] = "fetch_add_total"]
        /\ UNCHANGED <<vc_metrics, vc_last, vc_calls, vc_returned,
                       vc_prev, vc_refused,
                       vc_other, fv_vars, fc_vars, ppm_vars, rcm_vars, thr_vars>>

\* FetchAddTotal as a plain store of 1
StoreTotal(t) ==
    /\ vc_pc[t] = "fetch_add_total"
    /\ vc_metrics' = [vc_metrics EXCEPT !.total_validations = 1]
    /\ vc_pc' = [vc_pc EXCEPT ![t] = "fetch_add_latency"]
    /\ UNCHANGED <<vc_last, vc_calls, vc_local, vc_started, vc_returned,
                   vc_prev, vc_refused,
                       vc_other, fv_vars, fc_vars, ppm_vars, rcm_vars, thr_vars>>

\* metrics_.total_validations.fetch_add(1)
FetchAddTotal(t) ==
    /\ vc_pc[t] = "fetch_add_total"
    /\ vc_metrics' = [vc_metrics EXCEPT !.total_validations = @ + 1]
    /\ vc_pc' = [vc_pc EXCEPT ![t] = "fetch_add_latency"]
    /\ UNCHANGED <<vc_last, vc_calls, vc_local, vc_started, vc_returned,
                   vc_prev, vc_refused,
                       vc_other, fv_vars, fc_vars, ppm_vars, rcm_vars, thr_vars>>

\* metrics_.total_latency_ns.fetch_add(latency_ns)
FetchAddLatency(t) ==
    /\ vc_pc[t] = "fetch_add_latency"
    /\ vc_metrics' = [vc_metrics EXCEPT !.total_latency_ns =
                          @ + vc_local[t].latency_ns]
    /\ vc_pc' = [vc_pc EXCEPT ![t] = "fetch_add_result"]
    /\ UNCHANGED <<vc_last, vc_calls, vc_local, vc_started, vc_returned,
                   vc_prev, vc_refused,
                       vc_other, fv_vars, fc_vars, ppm_vars, rcm_vars, thr_vars>>

\* successful_validations.fetch_add(1) or failed_validations.fetch_add(1)
FetchAddResult(t) ==
    /\ vc_pc[t] = "fetch_add_result"
    /\ vc_metrics' = IF vc_local[t].result = "Valid"
                     THEN [vc_metrics EXCEPT !.successful_validations = @ + 1]
                     ELSE [vc_metrics EXCEPT !.failed_validations = @ + 1]
    /\ vc_pc' = [vc_pc EXCEPT ![t] = "load_max"]
    /\ UNCHANGED <<vc_last, vc_calls, vc_local, vc_started, vc_returned,
                   vc_prev, vc_refused,
                       vc_other, fv_vars, fc_vars, ppm_vars, rcm_vars, thr_vars>>

\* current_max = max_latency_ns.load(); if (latency_ns > current_max)
LoadMax(t) ==
    /\ vc_pc[t] = "load_max"
    /\ vc_local' = [vc_local EXCEPT ![t].current_max = vc_metrics.max_latency_ns]
    /\ vc_pc' = [vc_pc EXCEPT ![t] =
                     IF vc_local[t].latency_ns > vc_metrics.max_latency_ns
                     THEN "compare_exchange" ELSE "return"]
    /\ UNCHANGED <<vc_metrics, vc_last, vc_calls, vc_started, vc_returned,
                   vc_prev, vc_refused,
                       vc_other, fv_vars, fc_vars, ppm_vars, rcm_vars, thr_vars>>

\* CompareExchange that leaves the loop when the exchange fails
CompareExchangeGivesUp(t) ==
    /\ vc_pc[t] = "compare_exchange"
    /\ \/ /\ vc_metrics.max_latency_ns = vc_local[t].current_max
          /\ vc_metrics' = [vc_metrics EXCEPT !.max_latency_ns =
                                vc_local[t].latency_ns]
          /\ vc_pc' = [vc_pc EXCEPT ![t] = "return"]
          /\ UNCHANGED vc_local
       \/ /\ vc_metrics.max_latency_ns # vc_local[t].current_max
          /\ vc_pc' = [vc_pc EXCEPT ![t] = "return"]
          /\ UNCHANGED <<vc_metrics, vc_local>>
       \/ /\ vc_metrics.max_latency_ns = vc_local[t].current_max
          /\ vc_local' = [vc_local EXCEPT ![t].spurious = TRUE]
          /\ UNCHANGED <<vc_metrics, vc_pc>>
    /\ UNCHANGED <<vc_last, vc_calls, vc_started, vc_returned,
                   vc_prev, vc_refused,
                   vc_other, fv_vars, fc_vars, ppm_vars, rcm_vars, thr_vars>>

\* CompareExchange that keeps the stale current_max when the exchange fails
CompareExchangeKeepsExpected(t) ==
    /\ vc_pc[t] = "compare_exchange"
    /\ \/ /\ vc_metrics.max_latency_ns = vc_local[t].current_max
          /\ vc_metrics' = [vc_metrics EXCEPT !.max_latency_ns =
                                vc_local[t].latency_ns]
          /\ vc_pc' = [vc_pc EXCEPT ![t] = "return"]
          /\ UNCHANGED vc_local
       \/ /\ vc_metrics.max_latency_ns # vc_local[t].current_max
          /\ UNCHANGED <<vc_metrics, vc_local, vc_pc>>
       \/ /\ vc_metrics.max_latency_ns = vc_local[t].current_max
          /\ vc_local' = [vc_local EXCEPT ![t].spurious = TRUE]
          /\ UNCHANGED <<vc_metrics, vc_pc>>
    /\ UNCHANGED <<vc_last, vc_calls, vc_started, vc_returned,
                   vc_prev, vc_refused,
                   vc_other, fv_vars, fc_vars, ppm_vars, rcm_vars, thr_vars>>

\* one iteration of while (latency_ns > current_max &&
\* !max_latency_ns.compare_exchange_weak(current_max, latency_ns)):
\* the exchange succeeds, or fails and reloads current_max, or fails
\* spuriously although the value matched
CompareExchange(t) ==
    /\ vc_pc[t] = "compare_exchange"
    /\ \/ /\ vc_metrics.max_latency_ns = vc_local[t].current_max
          /\ vc_metrics' = [vc_metrics EXCEPT !.max_latency_ns =
                                vc_local[t].latency_ns]
          /\ vc_pc' = [vc_pc EXCEPT ![t] = "return"]
          /\ UNCHANGED vc_local
       \/ /\ vc_metrics.max_latency_ns # vc_local[t].current_max
          /\ vc_local' = [vc_local EXCEPT ![t].current_max =
                              vc_metrics.max_latency_ns]
          /\ vc_pc' = [vc_pc EXCEPT ![t] =
                           IF vc_local[t].latency_ns > vc_metrics.max_latency_ns
                           THEN "compare_exchange" ELSE "return"]
          /\ UNCHANGED vc_metrics
       \/ /\ vc_metrics.max_latency_ns = vc_local[t].current_max
          /\ vc_local' = [vc_local EXCEPT ![t].spurious = TRUE]
          /\ UNCHANGED <<vc_metrics, vc_pc>>
    /\ UNCHANGED <<vc_last, vc_calls, vc_started, vc_returned,
                   vc_prev, vc_refused,
                       vc_other, fv_vars, fc_vars, ppm_vars, rcm_vars, thr_vars>>

\* return result
CoreReturn(t) ==
    /\ vc_pc[t] = "return"
    /\ vc_returned' =
           LET largest == IF vc_local[t].latency_ns > vc_returned.largest
                          THEN vc_local[t].latency_ns
                          ELSE vc_returned.largest
           IN  IF vc_local[t].result = "Valid"
               THEN [vc_returned EXCEPT !.valid = @ + 1, !.largest = largest]
               ELSE [vc_returned EXCEPT !.failed = @ + 1, !.largest = largest]
    /\ vc_pc' = [vc_pc EXCEPT ![t] = "idle"]
    /\ vc_local' = [vc_local EXCEPT ![t] = NoResult]
    /\ UNCHANGED <<vc_metrics, vc_last, vc_calls, vc_started,
                   vc_prev, vc_refused,
                       vc_other, fv_vars, fc_vars, ppm_vars, rcm_vars, thr_vars>>

-----------------------------------------------------------------------------
(* FrequencyValidator: validate_frequency called from several threads; the  *)
(* metrics block, one atomic operation per step                             *)

\* FvCall sending a zero frequency through the metrics block as well
FvCallCountsZero(t, frequency, tolerance_ppm, duration_ns) ==
    /\ fv_pc[t] = "idle"
    /\ fv_calls < MaxFvRaceCalls
    /\ fv_calls' = fv_calls + 1
    /\ fv_nonzero_calls' = fv_nonzero_calls + (IF frequency = 0 THEN 0 ELSE 1)
    /\ fv_local' = [fv_local EXCEPT ![t] =
                        [frequency |-> frequency,
                         tolerance_ppm |-> tolerance_ppm,
                         result |-> ValidateFrequencyResult(frequency,
                                                            tolerance_ppm),
                         duration_u64 |-> duration_ns,
                         current_max |-> 0,
                         spurious |-> FALSE]]
    /\ fv_pc' = [fv_pc EXCEPT ![t] = "fetch_add_total"]
    /\ fv_largest' = IF frequency # 0 /\ duration_ns > fv_largest
                     THEN duration_ns ELSE fv_largest
    /\ UNCHANGED <<fv_metrics, fv_history, current_tolerance_ppm_,
                   fc_vars, ppm_vars, rcm_vars, thr_vars, core_vars>>

\* validate_frequency up to the metrics block: the zero check, the result
\* and the two timestamps
FvCall(t, frequency, tolerance_ppm, duration_ns) ==
    /\ fv_pc[t] = "idle"
    /\ fv_calls < MaxFvRaceCalls
    /\ fv_calls' = fv_calls + 1
    /\ fv_nonzero_calls' = fv_nonzero_calls + (IF frequency = 0 THEN 0 ELSE 1)
    /\ fv_local' = [fv_local EXCEPT ![t] =
                        [frequency |-> frequency,
                         tolerance_ppm |-> tolerance_ppm,
                         result |-> ValidateFrequencyResult(frequency,
                                                            tolerance_ppm),
                         duration_u64 |-> duration_ns,
                         current_max |-> 0,
                         spurious |-> FALSE]]
    /\ fv_pc' = [fv_pc EXCEPT ![t] = IF frequency = 0 THEN "return"
                                     ELSE "fetch_add_total"]
    /\ fv_largest' = IF frequency # 0 /\ duration_ns > fv_largest
                     THEN duration_ns ELSE fv_largest
    /\ UNCHANGED <<fv_metrics, fv_history, current_tolerance_ppm_,
                   fc_vars, ppm_vars, rcm_vars, thr_vars, core_vars>>

\* metrics.total_validations.fetch_add(1)
FvFetchAddTotal(t) ==
    /\ fv_pc[t] = "fetch_add_total"
    /\ fv_metrics' = [fv_metrics EXCEPT !.total_validations = @ + 1]
    /\ fv_pc' = [fv_pc EXCEPT ![t] = "fetch_add_result"]
    /\ UNCHANGED <<fv_history, fv_calls, fv_nonzero_calls, fv_local,
                   current_tolerance_ppm_, fv_largest,
                   fc_vars, ppm_vars, rcm_vars, thr_vars, core_vars>>

\* successful_validations.fetch_add(1) or failed_validations.fetch_add(1)
FvFetchAddResult(t) ==
    /\ fv_pc[t] = "fetch_add_result"
    /\ fv_metrics' = IF fv_local[t].result.status = "Valid"
                     THEN [fv_metrics EXCEPT !.successful_validations = @ + 1]
                     ELSE [fv_metrics EXCEPT !.failed_validations = @ + 1]
    /\ fv_pc' = [fv_pc EXCEPT ![t] = "fetch_add_latency"]
    /\ UNCHANGED <<fv_history, fv_calls, fv_nonzero_calls, fv_local,
                   current_tolerance_ppm_, fv_largest,
                   fc_vars, ppm_vars, rcm_vars, thr_vars, core_vars>>

\* FvFetchAddLatency that adds nothing
FvFetchAddLatencySkipped(t) ==
    /\ fv_pc[t] = "fetch_add_latency"
    /\ fv_pc' = [fv_pc EXCEPT ![t] = "load_max"]
    /\ UNCHANGED <<fv_metrics, fv_history, fv_calls, fv_nonzero_calls, fv_local,
                   current_tolerance_ppm_, fv_largest,
                   fc_vars, ppm_vars, rcm_vars, thr_vars, core_vars>>

\* metrics.total_latency_ns.fetch_add(duration_u64)
FvFetchAddLatency(t) ==
    /\ fv_pc[t] = "fetch_add_latency"
    /\ fv_metrics' = [fv_metrics EXCEPT !.total_latency_ns =
                          @ + fv_local[t].duration_u64]
    /\ fv_pc' = [fv_pc EXCEPT ![t] = "load_max"]
    /\ UNCHANGED <<fv_history, fv_calls, fv_nonzero_calls, fv_local,
                   current_tolerance_ppm_, fv_largest,
                   fc_vars, ppm_vars, rcm_vars, thr_vars, core_vars>>

\* current_max = metrics.max_latency_ns.load(), and the first evaluation of
\* duration_u64 > current_max
FvLoadMax(t) ==
    /\ fv_pc[t] = "load_max"
    /\ fv_local' = [fv_local EXCEPT ![t].current_max = fv_metrics.max_latency_ns]
    /\ fv_pc' = [fv_pc EXCEPT ![t] =
                     IF fv_local[t].duration_u64 > fv_metrics.max_latency_ns
                     THEN "compare_exchange" ELSE "return"]
    /\ UNCHANGED <<fv_metrics, fv_history, fv_calls, fv_nonzero_calls,
                   current_tolerance_ppm_, fv_largest,
                   fc_vars, ppm_vars, rcm_vars, thr_vars, core_vars>>

\* one iteration of while (duration_u64 > current_max &&
\* !max_latency_ns.compare_exchange_weak(current_max, duration_u64)):
\* the exchange succeeds, or fails and reloads current_max, or fails
\* spuriously although the value matched
FvCompareExchange(t) ==
    /\ fv_pc[t] = "compare_exchange"
    /\ \/ /\ fv_metrics.max_latency_ns = fv_local[t].current_max
          /\ fv_metrics' = [fv_metrics EXCEPT !.max_latency_ns =
                                fv_local[t].duration_u64]
          /\ fv_pc' = [fv_pc EXCEPT ![t] = "return"]
          /\ UNCHANGED fv_local
       \/ /\ fv_metrics.max_latency_ns # fv_local[t].current_max
          /\ fv_local' = [fv_local EXCEPT ![t].current_max =
                              fv_metrics.max_latency_ns]
          /\ fv_pc' = [fv_pc EXCEPT ![t] =
                           IF fv_local[t].duration_u64 > fv_metrics.max_latency_ns
                           THEN "compare_exchange" ELSE "return"]
          /\ UNCHANGED fv_metrics
       \/ /\ fv_metrics.max_latency_ns = fv_local[t].current_max
          /\ fv_local' = [fv_local EXCEPT ![t].spurious = TRUE]
          /\ UNCHANGED <<fv_metrics, fv_pc>>
    /\ UNCHANGED <<fv_history, fv_calls, fv_nonzero_calls,
                   current_tolerance_ppm_, fv_largest,
                   fc_vars, ppm_vars, rcm_vars, thr_vars, core_vars>>

\* return result
FvReturn(t) ==
    /\ fv_pc[t] = "return"
    /\ fv_pc' = [fv_pc EXCEPT ![t] = "idle"]
    /\ fv_local' = [fv_local EXCEPT ![t] = NoResult]
    /\ UNCHANGED <<fv_metrics, fv_history, fv_calls, fv_nonzero_calls,
                   current_tolerance_ppm_, fv_largest,
                   fc_vars, ppm_vars, rcm_vars, thr_vars, core_vars>>

-----------------------------------------------------------------------------
(* ValidationCore: reset_metrics called by a thread while others validate,  *)
(* one atomic store per step                                                *)

\* a thread enters reset_metrics
ResetCall(t) ==
    /\ vc_pc[t] = "idle"
    /\ vc_calls < MaxRaceResets
    /\ vc_calls' = vc_calls + 1
    /\ vc_pc' = [vc_pc EXCEPT ![t] = "store_total"]
    /\ UNCHANGED vc_metrics
    /\ UNCHANGED <<vc_last, vc_local, vc_started, vc_returned,
                   vc_prev, vc_refused,
                   vc_other, fv_vars, fc_vars, ppm_vars, rcm_vars, thr_vars>>

\* metrics_.total_validations.store(0)
ResetStoreTotal(t) ==
    /\ vc_pc[t] = "store_total"
    /\ vc_metrics' = [vc_metrics EXCEPT !.total_validations = 0]
    /\ vc_pc' = [vc_pc EXCEPT ![t] = "store_successful"]
    /\ UNCHANGED vc_calls
    /\ UNCHANGED <<vc_last, vc_local, vc_started, vc_returned,
                   vc_prev, vc_refused,
                   vc_other, fv_vars, fc_vars, ppm_vars, rcm_vars, thr_vars>>

\* metrics_.successful_validations.store(0)
ResetStoreSuccessful(t) ==
    /\ vc_pc[t] = "store_successful"
    /\ vc_metrics' = [vc_metrics EXCEPT !.successful_validations = 0]
    /\ vc_pc' = [vc_pc EXCEPT ![t] = "store_failed"]
    /\ UNCHANGED vc_calls
    /\ UNCHANGED <<vc_last, vc_local, vc_started, vc_returned,
                   vc_prev, vc_refused,
                   vc_other, fv_vars, fc_vars, ppm_vars, rcm_vars, thr_vars>>

\* metrics_.failed_validations.store(0)
ResetStoreFailed(t) ==
    /\ vc_pc[t] = "store_failed"
    /\ vc_metrics' = [vc_metrics EXCEPT !.failed_validations = 0]
    /\ vc_pc' = [vc_pc EXCEPT ![t] = "store_max"]
    /\ UNCHANGED vc_calls
    /\ UNCHANGED <<vc_last, vc_local, vc_started, vc_returned,
                   vc_prev, vc_refused,
                   vc_other, fv_vars, fc_vars, ppm_vars, rcm_vars, thr_vars>>

\* metrics_.max_latency_ns.store(0)
ResetStoreMax(t) ==
    /\ vc_pc[t] = "store_max"
    /\ vc_metrics' = [vc_metrics EXCEPT !.max_latency_ns = 0]
    /\ vc_pc' = [vc_pc EXCEPT ![t] = "store_total_latency"]
    /\ UNCHANGED vc_calls
    /\ UNCHANGED <<vc_last, vc_local, vc_started, vc_returned,
                   vc_prev, vc_refused,
                   vc_other, fv_vars, fc_vars, ppm_vars, rcm_vars, thr_vars>>

\* metrics_.total_latency_ns.store(0), and the return
ResetStoreTotalLatency(t) ==
    /\ vc_pc[t] = "store_total_latency"
    /\ vc_metrics' = [vc_metrics EXCEPT !.total_latency_ns = 0]
    /\ vc_pc' = [vc_pc EXCEPT ![t] = "idle"]
    /\ UNCHANGED vc_calls
    /\ UNCHANGED <<vc_last, vc_local, vc_started, vc_returned,
                   vc_prev, vc_refused,
                   vc_other, fv_vars, fc_vars, ppm_vars, rcm_vars, thr_vars>>

\* the steps of thread t inside reset_metrics
ResetStep(t) ==
    \/ ResetStoreTotal(t)
    \/ ResetStoreSuccessful(t)
    \/ ResetStoreFailed(t)
    \/ ResetStoreMax(t)
    \/ ResetStoreTotalLatency(t)

-----------------------------------------------------------------------------
(* Specifications *)

\* FrequencyValidator, one caller at a time
Init ==
    /\ FvInit /\ FcIdle /\ PpmIdle /\ RcmInit /\ ThrInit /\ CoreInit

Next ==
    \/ /\ fv_calls < MaxCalls
       /\ \E f \in FvFrequencies, tol \in FvTolerances, d \in Latencies :
              validate_frequency(f, tol, d)
    \/ /\ fv_calls < MaxCalls
       /\ fv_reset_metrics

Spec == Init /\ [][Next]_vars

\* FrequencyValidator, one caller at a time, with the static validation
\* function called on it or on a null context
NextFunction ==
    /\ fv_calls < MaxCalls
    /\ \/ \E f \in FvFrequencies, tol \in FvTolerances, d \in Latencies :
              validate_frequency(f, tol, d)
       \/ fv_reset_metrics
       \/ \E f \in FvFrequencies, context \in ContextPointers :
              FrequencyValidationCall(f, context)

SpecFunction == Init /\ [][NextFunction]_vars

\* two ValidationCore objects used, copied and moved by one caller, and the
\* factories called with a core that may have been used before
ObjectFunctions ==
    {nullptr, ValidationFunction([v \in CoreValues |-> "Valid"])}
ObjectNames == {"this", "other"}

NextObjects ==
    /\ vc_calls < MaxObjectCalls
    /\ \/ \E fn \in ObjectFunctions, d \in Latencies : validate(48000, fn, d)
       \/ \E fn \in ObjectFunctions, d \in Latencies :
              OtherValidate(48000, fn, d)
       \/ copy_construct
       \/ \E other \in ObjectNames : copy_assign(other)
       \/ move_construct
       \/ \E other \in ObjectNames : move_assign(other)
       \/ \E compliance_engine \in {nullptr, EnginePointer},
             validation_core \in {nullptr, CorePointer} :
              CreateFrequencyValidator(compliance_engine, validation_core)
       \/ \E validation_core \in {nullptr, CorePointer} :
              CreateRateCategoryManager(validation_core)

SpecObjects == Init /\ [][NextObjects]_vars

\* find_closest_standard_frequency over its inputs
InitClosest ==
    /\ fc_input \in ClosestInputs
    /\ fc_result = NoResult
    /\ FvInit /\ PpmIdle /\ RcmInit /\ ThrInit /\ CoreInit

NextClosest == FindClosestCall

SpecClosest == InitClosest /\ [][NextClosest]_vars

\* validate_frequency, first call on a new validator, over its inputs
NextValidateOnce ==
    /\ fv_calls = 0
    /\ \E a \in ValidateOnceInputs, d \in Latencies :
           validate_frequency(a[1], a[2], d)

SpecValidateOnce == Init /\ [][NextValidateOnce]_vars

\* calculate_tolerance_ppm over its inputs
InitTolerance ==
    /\ ppm_input \in [measured : PpmMeasured, reference : PpmReferences]
                       \cup {[measured |-> f, reference |-> f] : f \in PpmMeasured}
    /\ ppm_result = NoResult
    /\ FvInit /\ FcIdle /\ RcmInit /\ ThrInit /\ CoreInit

NextTolerance == CalculateToleranceCall

SpecTolerance == InitTolerance /\ [][NextTolerance]_vars

\* classify_rate_category, first call on a new instance, over its inputs
NextClassify ==
    /\ rcm_calls = 0
    /\ \E f \in ClassifyInputs, d \in Latencies : classify_rate_category(f, d)

SpecClassify == Init /\ [][NextClassify]_vars

\* RateCategoryManager, one caller at a time
NextRcm ==
    /\ rcm_calls < MaxRcmCalls
    /\ \E f \in RcmFrequencies, d \in Latencies : classify_rate_category(f, d)

SpecRcm == Init /\ [][NextRcm]_vars

\* RateCategoryManager, one caller at a time, every operation that reads or
\* writes the cache or the metrics
NextCache ==
    /\ rcm_calls < MaxRcmCalls
    /\ \/ \E f \in RcmFrequencies, d \in Latencies : classify_rate_category(f, d)
       \/ \E f \in RcmFrequencies, d \in Latencies : get_rate_category(f, d)
       \/ \E f \in RcmFrequencies, d \in Latencies :
              calculate_rate_multiplier(f, d)
       \/ \E f \in RcmFrequencies, d \in Latencies : is_valid_rate_category(f, d)
       \/ rcm_reset_metrics

SpecCache == Init /\ [][NextCache]_vars

\* a FrequencyValidator and a RateCategoryManager, each used by one caller at
\* a time, their operations in any order
NextContract ==
    /\ fv_calls + rcm_calls < MaxContractCalls
    /\ \/ \E f \in ContractFrequencies, tol \in FvTolerances, d \in Latencies :
              validate_frequency(f, tol, d)
       \/ fv_reset_metrics
       \/ \E f \in ContractFrequencies, d \in Latencies :
              classify_rate_category(f, d)
       \/ rcm_reset_metrics

SpecContract == Init /\ [][NextContract]_vars

\* ValidationCore, one caller at a time
NextCore ==
    \/ /\ vc_calls < MaxCoreCalls
       /\ vc_last = NoResult
       /\ \/ \E v \in CoreValues, fn \in ValidationFunctions, d \in Latencies :
                 validate(v, fn, d)
          \/ \E b \in BatchArguments, fn \in ValidationFunctions, d \in Latencies :
                 batch_validate(b.values, b.count, fn, d)
          \/ reset_metrics
          \/ \E c \in RealtimeCeilings : meets_realtime_constraints(c)
    \/ CoreResultDropped

SpecCore == Init /\ [][NextCore]_vars

\* ValidationCore::validate, several threads
NextCoreRace ==
    \E t \in CoreThreads :
        \/ \E v \in CoreValues, fn \in ValidationFunctions, d \in Latencies :
               CoreCall(t, v, fn, d)
        \/ FetchAddTotal(t)
        \/ FetchAddLatency(t)
        \/ FetchAddResult(t)
        \/ LoadMax(t)
        \/ CompareExchange(t)
        \/ CoreReturn(t)

SpecCoreRace == Init /\ [][NextCoreRace]_vars

\* FrequencyValidator, several threads
NextFvRace ==
    \E t \in FvThreads :
        \/ \E f \in FvRaceFrequencies, d \in Latencies :
               FvCall(t, f, DEFAULT_TOLERANCE_PPM, d)
        \/ FvFetchAddTotal(t)
        \/ FvFetchAddResult(t)
        \/ FvFetchAddLatency(t)
        \/ FvLoadMax(t)
        \/ FvCompareExchange(t)
        \/ FvReturn(t)

SpecFvRace == Init /\ [][NextFvRace]_vars

\* ValidationCore and FrequencyValidator, several threads each, scheduled
\* fairly
\* callbacks that return Valid, arrays of two elements, and for
\* validate_frequency zero and a standard: what a call returns has no part in
\* whether it returns
LiveFunctions == {ValidationFunction([v \in CoreValues |-> "Valid"])}
LiveBatches == {[values |-> Batch(2, {}), count |-> 2]}
LiveFrequencies == {0, 48000}
LiveCalls == SumTo(vc_started, NumCoreThreads) + fv_calls

\* the steps of thread t inside update_metrics
CoreStep(t) ==
    \/ FetchAddTotal(t)
    \/ FetchAddLatency(t)
    \/ FetchAddResult(t)
    \/ LoadMax(t)
    \/ CompareExchange(t)
    \/ CoreReturn(t)

\* the steps of thread t inside the metrics block of validate_frequency
FvStep(t) ==
    \/ FvFetchAddTotal(t)
    \/ FvFetchAddResult(t)
    \/ FvFetchAddLatency(t)
    \/ FvLoadMax(t)
    \/ FvCompareExchange(t)
    \/ FvReturn(t)

\* the threads of an instance being interchangeable, a call is started by
\* the lowest idle one
LowestIdle(t, position) == \A u \in 1..(t - 1) : position[u] # "idle"

\* latencies that let two racing samples differ and both exceed the maximum
RaceLatencies == 0..MaxRaceLatencyNs

\* the metrics of a ValidationCore and of a FrequencyValidator updated by
\* several threads, no reset_metrics; a run exercises one of the instances
NextMetricsRace ==
    \/ \E t \in CoreThreads :
           \/ /\ fv_calls = 0
              /\ LowestIdle(t, vc_pc)
              /\ \E v \in CoreValues, fn \in ObjectFunctions,
                    d \in RaceLatencies : CoreCall(t, v, fn, d)
           \/ /\ fv_calls = 0
              /\ LowestIdle(t, vc_pc)
              /\ \E b \in LiveBatches, fn \in LiveFunctions,
                    d \in RaceLatencies :
                     CoreBatchCall(t, b.values, b.count, fn, d)
           \/ CoreStep(t)
    \/ \E t \in FvThreads :
           \/ /\ SumTo(vc_started, NumCoreThreads) = 0
              /\ LowestIdle(t, fv_pc)
              /\ \E f \in LiveFrequencies, d \in RaceLatencies :
                     FvCall(t, f, DEFAULT_TOLERANCE_PPM, d)
           \/ FvStep(t)

SpecMetricsRace == Init /\ [][NextMetricsRace]_vars

\* a ValidationCore on which threads validate while a thread resets
NextResetRace ==
    \E t \in CoreThreads :
        \/ /\ LowestIdle(t, vc_pc)
           /\ \E v \in CoreValues, fn \in ObjectFunctions, d \in Latencies :
                  CoreCall(t, v, fn, d)
        \/ CoreStep(t)
        \/ LowestIdle(t, vc_pc) /\ ResetCall(t)
        \/ ResetStep(t)

SpecResetRace == Init /\ [][NextResetRace]_vars

\* the two instances share no state: a run exercises one of them
NextLive ==
    \/ \E t \in CoreThreads :
           \/ /\ LiveCalls < MaxLiveCalls
              /\ fv_calls = 0
              /\ LowestIdle(t, vc_pc)
              /\ \E v \in CoreValues, fn \in LiveFunctions, d \in Latencies :
                     CoreCall(t, v, fn, d)
           \/ /\ LiveCalls < MaxLiveCalls
              /\ fv_calls = 0
              /\ LowestIdle(t, vc_pc)
              /\ \E b \in LiveBatches, fn \in LiveFunctions, d \in Latencies :
                     CoreBatchCall(t, b.values, b.count, fn, d)
           \/ CoreStep(t)
    \/ \E t \in FvThreads :
           \/ /\ LiveCalls < MaxLiveCalls
              /\ LiveCalls = fv_calls
              /\ LowestIdle(t, fv_pc)
              /\ \E f \in LiveFrequencies, d \in Latencies :
                     FvCall(t, f, DEFAULT_TOLERANCE_PPM, d)
           \/ FvStep(t)

\* every thread inside a call keeps being scheduled, and a
\* compare_exchange_weak whose expected value matches does not fail forever
LiveFairness ==
    /\ \A t \in CoreThreads : WF_vars(CoreStep(t))
    /\ \A t \in FvThreads : WF_vars(FvStep(t))

SpecLive == Init /\ [][NextLive]_vars /\ LiveFairness

\* RateCategoryManager, several threads
NextRace ==
    \E t \in Threads :
        \/ \E f \in RaceFrequencies : Call(t, f)
        \/ CheckCache(t)
        \/ HitCategory(t)
        \/ HitMultiplier(t)
        \/ HitValid(t)
        \/ \E d \in Latencies : Validate(t, d)
        \/ StoreFrequency(t)
        \/ StoreCategory(t)
        \/ StoreMultiplier(t)

SpecRace == Init /\ [][NextRace]_vars


-----------------------------------------------------------------------------
(* Properties *)

\* the ten standard frequencies as the specification lists them
TenStandards ==
    {32000, 44100, 47952, 48000, 48048, 88200, 96000, 176400, 192000, 384000}

\* the six bands as the specification tabulates them
SpecifiedBand(f) ==
    IF 7750 <= f /\ f <= 13500 THEN "Quarter"
    ELSE IF 15500 <= f /\ f <= 27000 THEN "Half"
    ELSE IF 31000 <= f /\ f <= 54000 THEN "Basic"
    ELSE IF 62000 <= f /\ f <= 108000 THEN "Double"
    ELSE IF 124000 <= f /\ f <= 216000 THEN "Quadruple"
    ELSE IF 248000 <= f /\ f <= 432000 THEN "Octuple"
    ELSE "Unknown"

\* the result a classify_rate_category(f) call returns when it runs alone
ClassifiedAlone(f) ==
    RateCategoryResult(f, SpecifiedBand(f),
                       IF SpecifiedBand(f) = "Unknown" THEN ZeroMultiplier
                       ELSE Ratio(f, 48000),
                       SpecifiedBand(f) # "Unknown")

\* d * 1,000,000 <= tol * s over the integers, without forming d * 1,000,000
WithinTolerance(d, tol, s) == d <= (tol * s) \div 1000000

RcmEvents ==
    {e \in {rcm_history[i] : i \in 1..Len(rcm_history)} :
        e.op = "classify_rate_category"}

FvValidations ==
    {e \in {fv_history[i] : i \in 1..Len(fv_history)} : e.op = "validate_frequency"}

(* C1: under every interleaving of classify_rate_category calls of several
   threads on one manager, each completed call returns the category,
   multiplier and validity flag of its own input frequency. *)
C1_ConcurrentCallsReturnOwnResult ==
    \A t \in Threads : pc[t] = "done" => local[t] = ClassifiedAlone(arg[t])

(* C2: classify_rate_category(f) returns the band of the table in the
   specification that contains f, and Unknown when no band contains f, on the
   table path and on the range-check path alike. *)
C2_BandClassification ==
    \A e \in RcmEvents :
        /\ e.result.category = SpecifiedBand(e.frequency_hz)
        /\ e.result.category = ClassifyFrequency(e.frequency_hz).category
        /\ ClassifyFrequency(e.frequency_hz).path \in {"table", "range"}

\* max + 1 of the Basic band, classified on the range-check path
C2_Witness ==
    \E e \in RcmEvents :
        /\ e.frequency_hz = 54001
        /\ ~e.hit
        /\ ClassifyFrequency(e.frequency_hz).path = "range"
        /\ e.result.category = "Unknown"


(* C3: for nonzero f, validate_frequency(f, tol) is Valid exactly when
   |f - c| * 1,000,000 <= tol * c for c = find_closest_standard_frequency(f),
   and OutOfTolerance otherwise; detected_frequency is f and
   closest_standard_frequency is c. *)
C3_ValidIffDeviationWithinTolerance ==
    \A e \in FvValidations :
        e.frequency # 0 =>
            LET c == find_closest_standard_frequency(e.frequency)
            IN  /\ e.result.detected_frequency = e.frequency
                /\ e.result.closest_standard_frequency = c
                /\ e.result.status =
                       IF WithinTolerance(AbsDiff(e.frequency, c), e.tolerance_ppm, c)
                       THEN "Valid" ELSE "OutOfTolerance"

(* C4: for nonzero f, validate_frequency(f, tol) is Valid if and only if some
   standard frequency s satisfies |f - s| * 1,000,000 <= tol * s. *)
C4_ValidIffSomeStandardWithinTolerance ==
    \A e \in FvValidations :
        e.frequency # 0 =>
            ((e.result.status = "Valid") <=>
                \E s \in TenStandards :
                    WithinTolerance(AbsDiff(e.frequency, s), e.tolerance_ppm, s))

(* C5: for nonzero reference r, calculate_tolerance_ppm(m, r) is the integer
   quotient (|m - r| * 1,000,000) / r, less than 1 ppm below the true
   deviation. *)
C5_PpmIsIntegerQuotient ==
    (ppm_result # NoResult /\ ppm_input.reference # 0) =>
        ppm_result = Ppm(ScaledQuotient(AbsDiff(ppm_input.measured,
                                                ppm_input.reference),
                                        ppm_input.reference), 0)

(* C6: for nonzero f outside 47900..48150, the value returned by
   find_closest_standard_frequency(f) minimises |f - s| over the ten
   standard frequencies. *)
C6_ClosestIsNearest ==
    (/\ fc_result # NoResult
     /\ fc_input # 0
     /\ ~(47900 <= fc_input /\ fc_input <= 48150)) =>
        \A s \in TenStandards :
            AbsDiff(fc_input, fc_result.value) <= AbsDiff(fc_input, s)

\* the ranges of FREQUENCY_LOOKUP_TABLE that contain f
RangesContaining(f) ==
    {i \in 1..Len(FREQUENCY_LOOKUP_TABLE) :
        /\ FREQUENCY_LOOKUP_TABLE[i].min_freq <= f
        /\ f <= FREQUENCY_LOOKUP_TABLE[i].max_freq}

(* C7: the eleven ranges of FREQUENCY_LOOKUP_TABLE start at 0, end at
   UINT32_MAX and are contiguous, so every input lies in exactly one range;
   find_closest_standard_frequency returns one of the ten standards for every
   input, never by its post-loop fallback, and returns s for a standard s. *)
C7_TableTotal ==
    fc_result # NoResult =>
        /\ Len(FREQUENCY_LOOKUP_TABLE) = 11
        /\ FREQUENCY_LOOKUP_TABLE[1].min_freq = 0
        /\ FREQUENCY_LOOKUP_TABLE[11].max_freq = UINT32_MAX
        /\ \A i \in 1..10 :
               FREQUENCY_LOOKUP_TABLE[i + 1].min_freq =
                   FREQUENCY_LOOKUP_TABLE[i].max_freq + 1
        /\ Cardinality(RangesContaining(fc_input)) = 1
        /\ fc_result.value \in TenStandards
        /\ fc_result.path # "fallback"
        /\ fc_input \in TenStandards => fc_result.value = fc_input

\* the largest input, resolved by the last range of the table
C7_Witness ==
    /\ fc_input = UINT32_MAX
    /\ fc_result # NoResult
    /\ fc_result.path = "table"
    /\ fc_result.value = 384000

(* C8: in the 48 kHz family (the inputs 46000..60000, which resolve to one of
   the three 48 kHz variants) a non-standard f at or below 47976 resolves to
   47952, a non-standard f at or above 48151 resolves to 48048, and every
   other non-standard f resolves to 48000. *)
C8_FamilyCutPoints ==
    (/\ fc_result # NoResult
     /\ 46000 <= fc_input /\ fc_input <= 60000
     /\ fc_input \notin TenStandards) =>
        fc_result.value = IF fc_input <= 47976 THEN 47952
                          ELSE IF fc_input >= 48151 THEN 48048
                          ELSE 48000

\* the pull-down cut point itself
C8_Witness ==
    /\ fc_input = 47976
    /\ fc_result # NoResult
    /\ fc_result.path = "family"
    /\ fc_result.value = 47952

(* C9: every result of classify_rate_category(f) has valid true iff its
   category is not Unknown; a category other than Unknown comes with the
   multiplier f / 48000, and Unknown with multiplier 0.0 and valid false. *)
C9_MultiplierLaw ==
    \A e \in RcmEvents :
        /\ e.result.frequency_hz = e.frequency_hz
        /\ e.result.valid <=> (e.result.category # "Unknown")
        /\ e.result.category # "Unknown" =>
               e.result.multiplier = Ratio(e.frequency_hz, 48000)
        /\ e.result.category = "Unknown" =>
               e.result.multiplier = ZeroMultiplier /\ ~e.result.valid

\* a result served from the cache for a frequency inside a band
C9_Witness ==
    /\ Len(rcm_history) = 2
    /\ rcm_history[2].hit
    /\ rcm_history[2].frequency_hz = 96000
    /\ rcm_history[2].result.category = "Double"
    /\ rcm_history[2].result.multiplier = Ratio(96000, 48000)
    /\ rcm_history[2].result.valid

\* the last two operations are validate_frequency calls with equal arguments
SameCallTwice ==
    /\ Len(fv_history) = 2
    /\ fv_history[1].op = "validate_frequency"
    /\ fv_history[2].op = "validate_frequency"
    /\ fv_history[1].frequency = fv_history[2].frequency
    /\ fv_history[1].tolerance_ppm = fv_history[2].tolerance_ppm

(* C10 as stated: for every f and tol, two immediately successive calls
   validate_frequency(f, tol) return identical results and total_validations
   is strictly larger after the second call than after the first. *)
C10_SameResultAndTotalGrows ==
    SameCallTwice =>
        /\ fv_history[1].result = fv_history[2].result
        /\ fv_history[2].total_after > fv_history[1].total_after

(* C10 amended: two immediately successive calls validate_frequency(f, tol)
   return identical results; total_validations is strictly larger after the
   second call than after the first when f is nonzero, and is the same after
   both calls when f is 0. *)
C10_SameResultAndTotalGrowsForNonzero ==
    SameCallTwice =>
        /\ fv_history[1].result = fv_history[2].result
        /\ fv_history[1].frequency # 0 =>
               fv_history[2].total_after > fv_history[1].total_after
        /\ fv_history[1].frequency = 0 =>
               fv_history[2].total_after = fv_history[1].total_after

\* the same out-of-tolerance call twice in a row
C10_Witness ==
    /\ SameCallTwice
    /\ fv_history[2].frequency = 48100
    /\ fv_history[2].tolerance_ppm = 22
    /\ fv_history[2].result.status = "OutOfTolerance"
    /\ fv_history[1].total_after = 1
    /\ fv_history[2].total_after = 2

(* C11: whatever calls were made before on the instance,
   validate_frequency(0, tol) returns InvalidInput for every tol, and
   classify_rate_category(0) returns category Unknown with multiplier 0.0 and
   valid false. *)
C11_ZeroIsRejected ==
    /\ \A e \in FvValidations :
           e.frequency = 0 => e.result.status = "InvalidInput"
    /\ \A e \in RcmEvents :
           e.frequency_hz = 0 =>
               e.result = RateCategoryResult(0, "Unknown", ZeroMultiplier, FALSE)

\* zero passed to a validator, and to a manager whose cache holds 48000
C11_Witness ==
    /\ Len(fv_history) = 1
    /\ fv_history[1].op = "validate_frequency"
    /\ fv_history[1].frequency = 0
    /\ fv_history[1].result.status = "InvalidInput"
    /\ Len(rcm_history) = 2
    /\ rcm_history[1].frequency_hz = 48000
    /\ rcm_history[2].frequency_hz = 0
    /\ ~rcm_history[2].hit
    /\ rcm_history[2].result.category = "Unknown"

(* C12: validate_frequency(0, tol) returns closest_standard_frequency 0,
   tolerance_ppm 0 and clause Unknown, and leaves the five metrics counters of
   the validator's ValidationCore as they were. *)
C12_ZeroLeavesMetricsAlone ==
    \A e \in FvValidations :
        e.frequency = 0 =>
            /\ e.result.closest_standard_frequency = 0
            /\ e.result.tolerance_ppm = Ppm(0, 0)
            /\ e.result.applicable_clause = "Unknown"
            /\ e.metrics_after = e.metrics_before

\* zero passed to a validator that has recorded one sample
C12_Witness ==
    /\ Len(fv_history) = 2
    /\ fv_history[1].op = "validate_frequency"
    /\ fv_history[1].frequency = 48000
    /\ fv_history[2].op = "validate_frequency"
    /\ fv_history[2].frequency = 0
    /\ fv_history[2].metrics_before.total_validations = 1
    /\ fv_history[2].metrics_after = fv_history[2].metrics_before
    /\ fv_metrics.total_validations = 1

(* C13: every validate_frequency call with nonzero frequency records exactly
   one sample: total_validations + 1, successful_validations + 1 iff the
   returned status is Valid, otherwise failed_validations + 1; after k such
   calls from a reset state total = k = successful + failed. *)
C13_OneSamplePerNonzeroCall ==
    /\ \A e \in FvValidations :
           e.frequency # 0 =>
               /\ e.metrics_after.total_validations =
                      e.metrics_before.total_validations + 1
               /\ e.metrics_after.successful_validations =
                      e.metrics_before.successful_validations +
                          (IF e.result.status = "Valid" THEN 1 ELSE 0)
               /\ e.metrics_after.failed_validations =
                      e.metrics_before.failed_validations +
                          (IF e.result.status = "Valid" THEN 0 ELSE 1)
    /\ fv_metrics.total_validations = fv_nonzero_calls
    /\ fv_metrics.total_validations =
           fv_metrics.successful_validations + fv_metrics.failed_validations

\* two nonzero calls after construction, one Valid and one OutOfTolerance
C13_Witness ==
    /\ Len(fv_history) = 2
    /\ fv_history[1].op = "validate_frequency"
    /\ fv_history[1].result.status = "Valid"
    /\ fv_history[2].op = "validate_frequency"
    /\ fv_history[2].result.status = "OutOfTolerance"
    /\ fv_nonzero_calls = 2
    /\ fv_metrics.total_validations = 2
    /\ fv_metrics.successful_validations = 1
    /\ fv_metrics.failed_validations = 1

\* the sample update_metrics(result, latency_ns) adds to the counters m
OneSample(m, result, latency_ns) ==
    [total_validations |-> m.total_validations + 1,
     successful_validations |->
         m.successful_validations + (IF result = "Valid" THEN 1 ELSE 0),
     failed_validations |->
         m.failed_validations + (IF result = "Valid" THEN 0 ELSE 1),
     total_latency_ns |-> m.total_latency_ns + latency_ns,
     max_latency_ns |->
         IF m.max_latency_ns >= latency_ns THEN m.max_latency_ns ELSE latency_ns]

\* the last operation on the ValidationCore was op
CoreDid(op) == vc_last # NoResult /\ vc_last.op = op

\* the values handed to the last batch_validate call
SuppliedValues ==
    IF vc_last.values.null THEN {}
    ELSE {vc_last.values.at[i] : i \in 1..vc_last.count}

(* C14: validate with a non-null callback returns the outcome the callback
   returned for the value and records one sample: total_validations + 1,
   successful_validations + 1 iff the outcome is Valid and
   failed_validations + 1 otherwise, total_latency_ns increased by the measured
   latency, max_latency_ns the maximum of its old value and the latency. *)
C14_ValidateReturnsCallbackOutcome ==
    (CoreDid("validate") /\ ~vc_last.validation_function.null) =>
        /\ vc_last.result = vc_last.validation_function.fn[vc_last.value]
        /\ vc_last.invoked = <<vc_last.value>>
        /\ vc_last.metrics_after =
               OneSample(vc_last.metrics_before, vc_last.result, vc_last.latency_ns)

\* a failing callback outcome with a latency above the old maximum
C14_Witness ==
    /\ CoreDid("validate")
    /\ ~vc_last.validation_function.null
    /\ vc_last.result = "OutOfTolerance"
    /\ vc_last.latency_ns = 1
    /\ vc_last.metrics_before.total_validations = 1
    /\ vc_last.metrics_before.max_latency_ns = 0
    /\ vc_last.metrics_after.max_latency_ns = 1
    /\ vc_last.metrics_after.failed_validations =
           vc_last.metrics_before.failed_validations + 1

(* C15: validate with a null callback returns InternalError, invokes nothing
   and records one zero-latency sample: total_validations + 1,
   failed_validations + 1, successful_validations, total_latency_ns and
   max_latency_ns unchanged. *)
C15_NullCallbackIsInternalError ==
    (CoreDid("validate") /\ vc_last.validation_function.null) =>
        /\ vc_last.result = "InternalError"
        /\ vc_last.invoked = <<>>
        /\ vc_last.metrics_after =
               [vc_last.metrics_before EXCEPT
                    !.total_validations = @ + 1,
                    !.failed_validations = @ + 1]

\* a null callback on a core that has recorded a sample with latency 1
C15_Witness ==
    /\ CoreDid("validate")
    /\ vc_last.validation_function.null
    /\ vc_last.result = "InternalError"
    /\ vc_last.metrics_before.total_validations = 1
    /\ vc_last.metrics_before.total_latency_ns = 1
    /\ vc_last.metrics_after.total_validations = 2
    /\ vc_last.metrics_after.total_latency_ns = 1

(* C16 as stated: whenever validate or batch_validate is called with a
   non-null callback, the returned outcome is one the callback produced for
   one of the supplied values, or Valid when every evaluated value passed. *)
C16_OnlyNullCallbackIsDetected ==
    /\ (CoreDid("validate") /\ ~vc_last.validation_function.null) =>
           vc_last.result = vc_last.validation_function.fn[vc_last.value]
    /\ (CoreDid("batch_validate") /\ ~vc_last.validation_function.null) =>
           \/ \E v \in SuppliedValues :
                  vc_last.result = vc_last.validation_function.fn[v]
           \/ vc_last.result = "Valid"

(* C16 amended: whenever validate is called with a non-null callback, or
   batch_validate with a non-null callback, a non-null array and a count
   above 0, the returned outcome is one the callback produced for one of the
   supplied values, or Valid when every evaluated value passed;
   batch_validate with a null array or a count of 0 returns InternalError
   without invoking the callback. *)
C16_NullOrEmptyArgumentsAreDetected ==
    /\ (CoreDid("validate") /\ ~vc_last.validation_function.null) =>
           vc_last.result = vc_last.validation_function.fn[vc_last.value]
    /\ (/\ CoreDid("batch_validate")
        /\ ~vc_last.validation_function.null
        /\ ~vc_last.values.null
        /\ vc_last.count > 0) =>
           \/ \E i \in 1..Len(vc_last.invoked) :
                  /\ vc_last.values.at[vc_last.invoked[i]] \in SuppliedValues
                  /\ vc_last.result =
                         vc_last.validation_function.fn[
                             vc_last.values.at[vc_last.invoked[i]]]
                  /\ vc_last.result # "Valid"
           \/ /\ vc_last.result = "Valid"
              /\ \A i \in 1..Len(vc_last.invoked) :
                     vc_last.validation_function.fn[
                         vc_last.values.at[vc_last.invoked[i]]] = "Valid"
    /\ (CoreDid("batch_validate") /\ (vc_last.values.null \/ vc_last.count = 0)) =>
           vc_last.result = "InternalError" /\ vc_last.invoked = <<>>

\* an oversize batch whose callback answers InternalError for its odd element
C16_Witness ==
    /\ CoreDid("batch_validate")
    /\ ~vc_last.validation_function.null
    /\ ~vc_last.values.null
    /\ vc_last.count = 17
    /\ vc_last.values.at[3] = 44100
    /\ vc_last.validation_function.fn[44100] = "InternalError"
    /\ vc_last.validation_function.fn[48000] = "Valid"
    /\ vc_last.result = "InternalError"
    /\ vc_last.invoked = <<1, 2, 3>>

\* the indices among the first n of the last batch whose outcome is not Valid
FailingIndices(n) ==
    {i \in 1..n : vc_last.validation_function.fn[vc_last.values.at[i]] # "Valid"}

(* C17: batch_validate with n = min(count, 16) invokes the callback on the
   elements in index order, stops right after the first index whose outcome
   is not Valid and returns that outcome; no element after the first failure
   and none at index 16 or beyond (counting from 0) is evaluated; if all n
   elements are Valid the result is Valid. *)
C17_BatchIsFailFast ==
    (/\ CoreDid("batch_validate")
     /\ ~vc_last.validation_function.null
     /\ ~vc_last.values.null
     /\ vc_last.count > 0) =>
        LET n == IF vc_last.count < 16 THEN vc_last.count ELSE 16
            failing == FailingIndices(n)
            last == IF failing = {} THEN n
                    ELSE CHOOSE i \in failing : \A j \in failing : i <= j
        IN  /\ vc_last.invoked = [i \in 1..last |-> i]
            /\ vc_last.result =
                   IF failing = {} THEN "Valid"
                   ELSE vc_last.validation_function.fn[vc_last.values.at[last]]

\* a batch of 18 that fails at its fifth element and again at its last
C17_Witness ==
    /\ CoreDid("batch_validate")
    /\ ~vc_last.validation_function.null
    /\ ~vc_last.values.null
    /\ vc_last.count = 18
    /\ vc_last.values.at[5] = 44100
    /\ vc_last.values.at[18] = 44100
    /\ vc_last.validation_function.fn[44100] = "OutOfTolerance"
    /\ vc_last.validation_function.fn[48000] = "Valid"
    /\ vc_last.invoked = <<1, 2, 3, 4, 5>>
    /\ vc_last.result = "OutOfTolerance"

(* C18: every batch_validate call, successful, failing part-way or rejected
   for null or empty arguments, increases total_validations by exactly 1 and
   exactly one of successful_validations / failed_validations by 1
   (successful iff the returned outcome is Valid). *)
C18_OneSamplePerBatch ==
    CoreDid("batch_validate") =>
        /\ vc_last.metrics_after.total_validations =
               vc_last.metrics_before.total_validations + 1
        /\ vc_last.metrics_after.successful_validations =
               vc_last.metrics_before.successful_validations +
                   (IF vc_last.result = "Valid" THEN 1 ELSE 0)
        /\ vc_last.metrics_after.failed_validations =
               vc_last.metrics_before.failed_validations +
                   (IF vc_last.result = "Valid" THEN 0 ELSE 1)

\* a batch of 18 valid elements, sixteen of them evaluated, one sample
C18_Witness ==
    /\ CoreDid("batch_validate")
    /\ vc_last.count = 18
    /\ vc_last.result = "Valid"
    /\ Len(vc_last.invoked) = 16
    /\ vc_last.metrics_before.total_validations = 2
    /\ vc_last.metrics_after.total_validations = 3
    /\ vc_last.metrics_after.successful_validations =
           vc_last.metrics_before.successful_validations + 1

\* no validate call is in progress on the ValidationCore
CoreQuiescent == \A t \in CoreThreads : vc_pc[t] = "idle"

(* C19: when the validate calls issued by the threads have all returned (no
   reset having run), total_validations is their number,
   successful_validations the number of them that returned Valid and
   failed_validations the number of the others; in every intermediate state
   successful_validations + failed_validations <= total_validations. *)
C19_MetricsExactUnderConcurrency ==
    /\ vc_metrics.successful_validations + vc_metrics.failed_validations
           <= vc_metrics.total_validations
    /\ CoreQuiescent =>
           /\ vc_metrics.total_validations = vc_returned.valid + vc_returned.failed
           /\ vc_metrics.successful_validations = vc_returned.valid
           /\ vc_metrics.failed_validations = vc_returned.failed

\* all the calls have been made and have returned, some Valid and some not
C19_Witness ==
    /\ CoreQuiescent
    /\ SumTo(vc_started, NumCoreThreads) = MaxCoreRaceCalls
    /\ vc_returned.valid >= 1
    /\ vc_returned.failed >= 1
    /\ vc_metrics.total_validations = MaxCoreRaceCalls

(* C20: when the threads' classify_rate_category calls on one manager pass
   frequencies that are nonzero and pairwise distinct across all calls, no
   call is served from the cache, every completed call returns the band
   classification of its own input, and once all threads have finished
   total_validations is the number of calls. *)
C20_DistinctFrequenciesDoNotInterfere ==
    all_distinct =>
        /\ \A t \in Threads :
               /\ pc[t] \notin {"hit_category", "hit_multiplier", "hit_valid"}
               /\ pc[t] = "done" => local[t] = ClassifiedAlone(arg[t])
        /\ (\A t \in Threads : pc[t] \in {"idle", "done"}) =>
               rcm_metrics.total_validations = Cardinality(called)

\* every thread has completed a call, with distinct nonzero frequencies
C20_Witness ==
    /\ all_distinct
    /\ \A t \in Threads : pc[t] = "done"
    /\ Cardinality(called) = MaxRaceCalls
    /\ rcm_metrics.total_validations = MaxRaceCalls
    /\ \E t \in Threads : local[t].category = "Basic"
    /\ \E t \in Threads : local[t].category = "Double"

\* the last two operations are classify_rate_category calls
TwoClassifyCalls ==
    /\ Len(rcm_history) = 2
    /\ rcm_history[1].op = "classify_rate_category"
    /\ rcm_history[2].op = "classify_rate_category"

\* the counters m with one sample added for a call that classified as category
SampleFor(m, category) ==
    [total_validations |-> m.total_validations + 1,
     successful_validations |->
         m.successful_validations + (IF category # "Unknown" THEN 1 ELSE 0),
     failed_validations |->
         m.failed_validations + (IF category # "Unknown" THEN 0 ELSE 1)]

\* the three counting fields of the counters m
Counts(m) ==
    [total_validations |-> m.total_validations,
     successful_validations |-> m.successful_validations,
     failed_validations |-> m.failed_validations]

(* C22: a classify_rate_category(f) call made right after another
   classify_rate_category(f) call with the same f on the same manager, one
   caller at a time, returns a result equal to the first call's result and
   leaves the five metrics counters unchanged. *)
C22_CacheHitLeavesMetricsAlone ==
    (TwoClassifyCalls /\ rcm_history[1].frequency_hz = rcm_history[2].frequency_hz) =>
        /\ rcm_history[2].result = rcm_history[1].result
        /\ rcm_history[2].metrics_after = rcm_history[1].metrics_after

\* 48000 classified twice in a row on a new manager
C22_Witness ==
    /\ TwoClassifyCalls
    /\ rcm_history[1].frequency_hz = 48000
    /\ ~rcm_history[1].hit
    /\ rcm_history[2].frequency_hz = 48000
    /\ rcm_history[2].hit
    /\ rcm_history[2].result.category = "Basic"
    /\ rcm_history[1].metrics_after.total_validations = 1
    /\ rcm_metrics.total_validations = 1

(* C23: a classify_rate_category(f) call records exactly one sample
   (total_validations + 1; successful_validations + 1 iff the category is not
   Unknown, else failed_validations + 1) unless f is the frequency of the most
   recent earlier classify call on the manager; the first call on a new
   manager always records one sample. *)
C23_MissRecordsOneSample ==
    /\ (rcm_calls = 1 /\ rcm_history[1].op = "classify_rate_category") =>
           Counts(rcm_history[1].metrics_after) =
               SampleFor(ZeroMetrics, rcm_history[1].result.category)
    /\ (TwoClassifyCalls /\ rcm_history[1].frequency_hz # rcm_history[2].frequency_hz) =>
           Counts(rcm_history[2].metrics_after) =
               SampleFor(rcm_history[1].metrics_after,
                         rcm_history[2].result.category)

(* C26: calculate_tolerance_ppm(f, f) is exactly 0 for every nonzero f,
   calculate_tolerance_ppm(m, 0) is the maximum-value sentinel for every m,
   and validate_frequency never returns the sentinel as its deviation, its
   reference being a nonzero standard frequency. *)
C26_ZeroAndSentinel ==
    ppm_result # NoResult =>
        /\ (ppm_input.measured = ppm_input.reference /\ ppm_input.reference # 0) =>
               ppm_result = Ppm(0, 0)
        /\ ppm_input.reference = 0 => ppm_result = DBL_MAX
        /\ ppm_input.measured # 0 =>
               /\ find_closest_standard_frequency(ppm_input.measured)
                      \in TenStandards
               /\ \A tol \in FvTolerances :
                      ValidateFrequencyResult(ppm_input.measured, tol).tolerance_ppm
                          # DBL_MAX

\* zero measured against a zero reference
C26_Witness ==
    /\ ppm_input = [measured |-> 0, reference |-> 0]
    /\ ppm_result = DBL_MAX

(* C27: find_closest_standard_frequency returns 32000 for 35000, 44100 for
   40000, 47952 for 46000, 48048 for 48500, 96000 for 70000 and 96000 for
   100000. *)
C27_TabulatedClosest ==
    fc_result # NoResult =>
        /\ fc_input = 35000 => fc_result.value = 32000
        /\ fc_input = 40000 => fc_result.value = 44100
        /\ fc_input = 46000 => fc_result.value = 47952
        /\ fc_input = 48500 => fc_result.value = 48048
        /\ fc_input = 70000 => fc_result.value = 96000
        /\ fc_input = 100000 => fc_result.value = 96000

\* the clause the specification names for each standard frequency
SpecifiedClause(f) ==
    IF f = 48000 THEN "Section_5_1"
    ELSE IF f = 32000 THEN "Section_5_4"
    ELSE IF f = 47952 \/ f = 48048 THEN "Annex_A"
    ELSE "Section_5_2"

(* C25: for each of the ten standard frequencies s and every tolerance tol >= 0,
   0 included, validate_frequency(s, tol) is Valid with detected and closest
   frequency s and deviation 0; its clause is Section_5_1 for 48000,
   Section_5_4 for 32000, Annex_A for 47952 and 48048, Section_5_2 for the
   other six; for no nonzero input is the clause Unknown. *)
C25_StandardsAreValidWithClause ==
    \A e \in FvValidations :
        /\ e.frequency \in TenStandards =>
               /\ e.result.status = "Valid"
               /\ e.result.detected_frequency = e.frequency
               /\ e.result.closest_standard_frequency = e.frequency
               /\ e.result.tolerance_ppm = Ppm(0, 0)
               /\ e.result.applicable_clause = SpecifiedClause(e.frequency)
        /\ e.frequency # 0 => e.result.applicable_clause # "Unknown"

\* the pull-down rate validated at tolerance 0
C25_Witness ==
    \E e \in FvValidations :
        /\ e.frequency = 47952
        /\ e.tolerance_ppm = 0
        /\ e.result.status = "Valid"
        /\ e.result.applicable_clause = "Annex_A"

(* C24: the metrics are observational only: validate_frequency and
   classify_rate_category return, in every metrics state, the result the same
   call returns on an instance whose counters are all zero, and a
   reset_metrics between two calls does not change what the second returns. *)
C24_ResultsIgnoreMetrics ==
    /\ \A e \in FvValidations :
           e.result = ValidateFrequencyResult(e.frequency, e.tolerance_ppm)
    /\ \A e \in RcmEvents : e.result = ClassifiedAlone(e.frequency_hz)
    /\ (/\ Len(fv_history) = 2
        /\ fv_history[1].op = "validate_frequency"
        /\ fv_history[2].op = "validate_frequency"
        /\ fv_history[1].frequency = fv_history[2].frequency
        /\ fv_history[1].tolerance_ppm = fv_history[2].tolerance_ppm) =>
           fv_history[2].result = fv_history[1].result

\* 48000 classified, the metrics reset, 48000 classified again
C24_Witness ==
    /\ rcm_calls = 3
    /\ Len(rcm_history) = 2
    /\ rcm_history[1].op = "reset_metrics"
    /\ rcm_history[2].op = "classify_rate_category"
    /\ rcm_history[2].frequency_hz = 48000
    /\ rcm_history[2].hit
    /\ rcm_history[2].result.category = "Basic"
    /\ rcm_metrics = ZeroMetrics

(* C29: when reset_metrics has returned, no other call running, the five
   counters are all 0 whatever calls came before, and the next validate call
   leaves total_validations at 1. *)
C29_ResetZeroesAllCounters ==
    /\ CoreDid("reset_metrics") => vc_metrics = ZeroMetrics
    /\ (CoreDid("validate") /\ vc_last.previous = "reset_metrics") =>
           /\ vc_last.metrics_before = ZeroMetrics
           /\ vc_metrics.total_validations = 1

\* a reset of counters that earlier calls had raised, maximum included
C29_Witness ==
    /\ CoreDid("reset_metrics")
    /\ vc_last.metrics_before.total_validations = 2
    /\ vc_last.metrics_before.failed_validations >= 1
    /\ vc_last.metrics_before.max_latency_ns >= 1
    /\ vc_metrics = ZeroMetrics

(* C30: meets_realtime_constraints(c) is true iff max_latency_ns <= c at the
   time of the call and changes no state; it is true for every c >= 0 on a new
   or freshly reset instance; a ceiling it has answered false for is answered
   false again until reset_metrics runs. *)
C30_MeetsIffMaxWithinCeiling ==
    CoreDid("meets_realtime_constraints") =>
        /\ vc_last.result = (vc_metrics.max_latency_ns <= vc_last.max_latency_ns)
        /\ vc_metrics = vc_last.metrics_before
        /\ vc_last.previous \in {"none", "reset_metrics"} => vc_last.result
        /\ vc_last.max_latency_ns \in vc_last.refused_before => ~vc_last.result

\* ceiling 0 asked again after it was refused
C30_Witness ==
    /\ CoreDid("meets_realtime_constraints")
    /\ vc_last.max_latency_ns = 0
    /\ 0 \in vc_last.refused_before
    /\ ~vc_last.result
    /\ vc_metrics.max_latency_ns = 1

FvQuiescent == \A t \in FvThreads : fv_pc[t] = "idle"

(* C21: under every interleaving of validate_frequency calls of several
   threads on one validator, each call returns the result it returns when run
   alone, and when all calls have returned total_validations is the number of
   calls made with a nonzero frequency. *)
C21_ConcurrentValidateFrequency ==
    /\ \A t \in FvThreads :
           fv_pc[t] = "return" =>
               fv_local[t].result =
                   ValidateFrequencyResult(fv_local[t].frequency,
                                           fv_local[t].tolerance_ppm)
    /\ FvQuiescent => fv_metrics.total_validations = fv_nonzero_calls
    /\ fv_metrics.total_validations <= fv_nonzero_calls

\* a nonzero call is about to return its result while the other calls, one of
\* them with frequency zero, have returned
C21_Witness ==
    /\ fv_calls = MaxFvRaceCalls
    /\ fv_nonzero_calls = MaxFvRaceCalls - 1
    /\ fv_metrics.total_validations = MaxFvRaceCalls - 1
    /\ \E t \in FvThreads :
           /\ fv_pc[t] = "return"
           /\ fv_local[t].frequency = 48100
           /\ fv_local[t].result.status = "OutOfTolerance"
           /\ \A u \in FvThreads \ {t} : fv_pc[u] = "idle"

\* no compare-exchange of a call has failed while max_latency_ns held the
\* expected value
RetriesOnlyAfterRaise ==
    /\ \A t \in CoreThreads : vc_pc[t] # "idle" => ~vc_local[t].spurious
    /\ \A t \in FvThreads : fv_pc[t] # "idle" => ~fv_local[t].spurious

(* C28: with finitely many concurrent validate, batch_validate and
   validate_frequency calls whose callbacks return, and threads scheduled
   fairly, every call eventually returns, a compare_exchange_weak that keeps
   finding the expected value not failing forever. *)
C28_EveryCallReturns ==
    /\ \A t \in CoreThreads : (vc_pc[t] # "idle") ~> (vc_pc[t] = "idle")
    /\ \A t \in FvThreads : (fv_pc[t] # "idle") ~> (fv_pc[t] = "idle")

(* C28 as stated: every call eventually returns, and the compare-and-swap
   loop retries only when another thread has raised max_latency_ns. *)
C28_ReturnsAndRetriesOnlyAfterRaise ==
    /\ \A t \in CoreThreads : (vc_pc[t] # "idle") ~> (vc_pc[t] = "idle")
    /\ \A t \in FvThreads : (fv_pc[t] # "idle") ~> (fv_pc[t] = "idle")
    /\ []RetriesOnlyAfterRaise

\* a validate call is about to return after a compare-exchange that failed
\* although no thread had raised the maximum, another call being in progress
C28_Witness ==
    \E t \in CoreThreads :
        /\ vc_pc[t] = "return"
        /\ vc_local[t].spurious
        /\ \E u \in CoreThreads \ {t} : vc_pc[u] = "compare_exchange"

(* C35: for every frequency f that is a multiple of 1000 Hz with f / 1000
   inside the precomputed table, the table entry
   frequency_to_category_lookup_[f / 1000] is the category the six-band range
   check gives f, so the category returned for f is the same on both paths;
   the loop body that fills the table agrees with the range check at every
   multiple of 1000 Hz, whatever the size of the table. *)
C35_TableAgreesWithRangeCheck ==
    \A e \in RcmEvents :
      /\ e.frequency_hz % 1000 = 0 =>
            LookupEntry(e.frequency_hz) = RangeCheck(e.frequency_hz)
      /\ (/\ e.frequency_hz % 1000 = 0
         /\ e.frequency_hz \div 1000 < FREQUENCY_LOOKUP_SIZE) =>
            /\ ClassifyFrequency(e.frequency_hz).path = "table"
            /\ frequency_to_category_lookup_[e.frequency_hz \div 1000]
                   = RangeCheck(e.frequency_hz)
            /\ e.result.category = RangeCheck(e.frequency_hz)

\* the last multiple of 1000 Hz inside the Octuple band, served by the table
C35_Witness ==
    \E e \in RcmEvents :
        /\ e.frequency_hz = 432000
        /\ ClassifyFrequency(e.frequency_hz).path = "table"
        /\ e.result.category = "Octuple"

(* C38: in every state reached by non-overlapping classify_rate_category,
   get_rate_category, calculate_rate_multiplier, is_valid_rate_category and
   reset_metrics calls on a new manager, the cached category and multiplier are
   the band classification and the multiplier of last_frequency_, and every
   classification returns what a call on a new manager returns. *)
C38_CacheCoherent ==
    /\ last_category_ = ClassifiedAlone(last_frequency_).category
    /\ last_multiplier_ = ClassifiedAlone(last_frequency_).multiplier
    /\ \A e \in RcmEvents : e.result = ClassifiedAlone(e.frequency_hz)

\* the third call classifies 96000 right after a reset_metrics call and leaves
\* 96000 / Double / 2.0 in the cache
C38_Witness ==
    /\ rcm_calls = 3
    /\ rcm_history[1].op = "reset_metrics"
    /\ rcm_history[2].op = "classify_rate_category"
    /\ ~rcm_history[2].hit
    /\ last_frequency_ = 96000
    /\ last_category_ = "Double"
    /\ last_multiplier_ = Ratio(96000, 48000)

(* C39: find_closest_standard_frequency is monotone non-decreasing: a larger
   argument never gets a smaller result. *)
C39_ClosestIsMonotone ==
    (fc_result # NoResult /\ fc_input < UINT32_MAX) =>
        /\ fc_result.value <= find_closest_standard_frequency(fc_input + 1)
        /\ \A f2 \in TenStandards :
               fc_input <= f2 =>
                   fc_result.value <= find_closest_standard_frequency(f2)

FunctionEvents ==
    {e \in {fv_history[i] : i \in 1..Len(fv_history)} :
        e.op = "frequency_validation_function"}

(* C33: frequency_validation_function(f, ctx) returns InternalError for a
   null ctx, InvalidInput for a non-null ctx and f = 0, and otherwise the
   status of validate_frequency(f, 100) on the validator; no operation changes
   current_tolerance_ppm_ from the default 100, and the function leaves the
   metrics as they were. *)
C33_FunctionMatchesValidateAtDefault ==
    /\ current_tolerance_ppm_ = DEFAULT_TOLERANCE_PPM
    /\ DEFAULT_TOLERANCE_PPM = 100
    /\ \A e \in FunctionEvents :
          /\ e.status =
                 IF e.context.null THEN "InternalError"
                 ELSE IF e.frequency = 0 THEN "InvalidInput"
                 ELSE ValidateFrequencyResult(e.frequency, 100).status
          /\ e.metrics_after = e.metrics_before

\* validate_frequency(44101, 0) is OutOfTolerance, and the function called
\* next on the same validator applies 100 ppm and returns Valid
C33_Witness ==
    /\ Len(fv_history) = 2
    /\ fv_history[1].op = "validate_frequency"
    /\ fv_history[1].frequency = 44101
    /\ fv_history[1].tolerance_ppm = 0
    /\ fv_history[1].result.status = "OutOfTolerance"
    /\ fv_history[2].op = "frequency_validation_function"
    /\ fv_history[2].frequency = 44101
    /\ ~fv_history[2].context.null
    /\ fv_history[2].status = "Valid"
    /\ fv_metrics.total_validations = 1

CopyMoveOps ==
    {"copy_construct", "copy_assign", "move_construct", "move_assign"}

(* C31: after copy or move construction and after copy or move assignment
   from another object the destination's five counters are 0, whatever they
   were, and the source's counters are what they were; self-assignment leaves
   the counters as they were. *)
C31_CopyMoveNeverDuplicatesCounters ==
    (vc_last # NoResult /\ vc_last.op \in CopyMoveOps) =>
        /\ vc_other = vc_last.other_before
        /\ IF vc_last.other = "this"
           THEN vc_metrics = vc_last.this_before
           ELSE vc_metrics = ZeroMetrics

\* copy assignment from a used core to a used core
C31_Witness ==
    /\ vc_last # NoResult
    /\ vc_last.op = "copy_assign"
    /\ vc_last.other = "other"
    /\ vc_last.this_before.total_validations = 1
    /\ vc_last.other_before.total_validations = 1
    /\ vc_metrics = ZeroMetrics
    /\ vc_other.total_validations = 1

CreateOps == {"FrequencyValidator::create", "RateCategoryManager::create"}

\* the handle a factory call returned is null exactly when a collaborator
\* it needs was null
NullIffCollaboratorNull ==
    (vc_last # NoResult /\ vc_last.op \in CreateOps) =>
        (vc_last.handle.null <=>
            IF vc_last.op = "FrequencyValidator::create"
            THEN vc_last.compliance_engine.null \/ vc_last.validation_core.null
            ELSE vc_last.validation_core.null)

(* C32, as the code has it: FrequencyValidator::create returns a null handle
   iff the compliance engine or the validation core is null,
   RateCategoryManager::create iff the validation core is null, and the
   metrics of a non-null handle are the counters of the core it was given:
   all 0 when that core had recorded nothing. *)
C32_NullIffCollaboratorNullAndCoreKept ==
    /\ NullIffCollaboratorNull
    /\ (vc_last # NoResult /\ vc_last.op \in CreateOps
            /\ ~vc_last.handle.null) =>
          /\ vc_last.handle.metrics = vc_last.validation_core.metrics
          /\ vc_last.handle.metrics = vc_metrics
          /\ IF vc_last.op = "FrequencyValidator::create"
             THEN fv_metrics = vc_metrics
             ELSE rcm_metrics = vc_metrics

\* a validator is created on a core that has recorded one validation
C32_Witness ==
    /\ vc_last # NoResult
    /\ vc_last.op = "FrequencyValidator::create"
    /\ ~vc_last.handle.null
    /\ vc_last.handle.metrics.total_validations = 1
    /\ fv_metrics.total_validations = 1

(* C32 as stated: a null handle iff a collaborator is null, and a non-null
   handle starts with all metrics counters 0. *)
C32_NonNullHandleStartsAtZero ==
    /\ NullIffCollaboratorNull
    /\ (vc_last # NoResult /\ vc_last.op \in CreateOps
            /\ ~vc_last.handle.null) =>
          vc_last.handle.metrics = ZeroMetrics

(* C36: for every interleaving of the load and compare-exchange steps of
   concurrent update_metrics executions, spurious failures included, once all
   of them have finished (no reset having run) max_latency_ns is the largest
   latency among the recorded samples; max_latency_ns never decreases. *)
C36_LockFreeMaximumIsExact ==
    /\ [](CoreQuiescent => vc_metrics.max_latency_ns = vc_returned.largest)
    /\ [](FvQuiescent => fv_metrics.max_latency_ns = fv_largest)
    /\ [][/\ vc_metrics'.max_latency_ns >= vc_metrics.max_latency_ns
          /\ fv_metrics'.max_latency_ns >= fv_metrics.max_latency_ns]_vars

\* two samples of latency 1 and 2 have been recorded and the maximum is 2
C36_Witness ==
    /\ CoreQuiescent
    /\ vc_metrics.total_validations = 2
    /\ vc_metrics.total_latency_ns = 3
    /\ vc_returned.largest = 2
    /\ vc_metrics.max_latency_ns = 2

(* C40: in every state of a ValidationCore (and of a FrequencyValidator's core)
   on which reset_metrics does not run concurrently with a validation, states
   in the middle of concurrent metrics updates included,
   max_latency_ns <= total_latency_ns and
   successful_validations + failed_validations <= total_validations. *)
C40_TotalsLeadCountersAndMaximum ==
    /\ vc_metrics.max_latency_ns <= vc_metrics.total_latency_ns
    /\ vc_metrics.successful_validations + vc_metrics.failed_validations
           <= vc_metrics.total_validations
    /\ fv_metrics.max_latency_ns <= fv_metrics.total_latency_ns
    /\ fv_metrics.successful_validations + fv_metrics.failed_validations
           <= fv_metrics.total_validations

\* one validate_frequency call has raised the maximum and returned while a
\* second one has added to the totals and not yet to the maximum
C40_Witness ==
    /\ \E t \in FvThreads : fv_pc[t] = "load_max"
    /\ fv_metrics.total_validations = 2
    /\ fv_metrics.total_latency_ns = 3
    /\ fv_metrics.max_latency_ns = 1

(* C37: in every state in which no validate, batch_validate or reset_metrics
   call is in progress, total_validations = successful_validations +
   failed_validations (so the success rate is between 0 and 100) and
   max_latency_ns <= total_latency_ns, whatever interleaving of resets and
   validations led there. *)
C37_QuiescentMetricsConsistent ==
    CoreQuiescent =>
        /\ vc_metrics.total_validations =
               vc_metrics.successful_validations + vc_metrics.failed_validations
        /\ vc_metrics.successful_validations <= vc_metrics.total_validations
        /\ vc_metrics.max_latency_ns <= vc_metrics.total_latency_ns

=============================================================================
